---- MODULE Spec2Model ----
(***************************************************************************)
(* Verification model of py-jitabi: the JITContext facade                  *)
(* (src/jitabi/__init__.py), the filesystem artifact cache                  *)
(* (src/jitabi/cache.py), the build step (src/jitabi/compiler.py), the ABI  *)
(* view and type resolver (src/jitabi/protocol.py) and the name validator   *)
(* (src/jitabi/sanitize.py).                                                *)
(*                                                                          *)
(* Text is modelled as a sequence of one-character strings so that string   *)
(* operations (endswith, slicing, concatenation, regex matching) are        *)
(* computed rather than assumed.                                            *)
(***************************************************************************)
EXTENDS Integers, Sequences, FiniteSets, TLC

\* ------------------------------------------------------------------------
\* Bounds of the model
\* ------------------------------------------------------------------------

\* number of operating-system processes sharing one cache root
NumProcs == 2

\* calls of module_for_abi one process may start over its lifetime
MaxCalls == 3

\* JITContext objects one process may construct (sessions) over its lifetime
MaxSessions == 2

\* cap of the per-name version counter (JITContext._versions)
MaxVersion == 2

Procs == 1..NumProcs

None == "None"

\* ------------------------------------------------------------------------
\* Text: strings are sequences of one-character strings
\* ------------------------------------------------------------------------

Lower == {"a","b","c","d","e","f","g","h","i","j","k","l","m",
          "n","o","p","q","r","s","t","u","v","w","x","y","z"}
Upper == {"A","B","C","D","E","F","G","H","I","J","K","L","M",
          "N","O","P","Q","R","S","T","U","V","W","X","Y","Z"}
Digits == {"0","1","2","3","4","5","6","7","8","9"}
IdStart == Lower \cup Upper \cup {"_"}
IdChar == IdStart \cup Digits

EndsWith(s, suf) ==
    /\ Len(s) >= Len(suf)
    /\ SubSeq(s, Len(s) - Len(suf) + 1, Len(s)) = suf

DropLast(s, n) == SubSeq(s, 1, Len(s) - n)

SetMax(S) == CHOOSE x \in S : \A y \in S : y <= x
SetMin(S) == CHOOSE x \in S : \A y \in S : x <= y

\* str.find / str.rfind of one character: 0-based index, -1 when absent
Find(s, c) ==
    LET I == {i \in 1..Len(s) : s[i] = c}
    IN IF I = {} THEN -1 ELSE SetMin(I) - 1

RFind(s, c) ==
    LET I == {i \in 1..Len(s) : s[i] = c}
    IN IF I = {} THEN -1 ELSE SetMax(I) - 1

\* str.isdigit (ASCII): non-empty and only digits
IsDigit(s) == Len(s) > 0 /\ \A i \in 1..Len(s) : s[i] \in Digits

\* decimal text of a small natural number (str(int))
DigitChar(d) == CASE d = 0 -> "0" [] d = 1 -> "1" [] d = 2 -> "2" [] d = 3 -> "3"
                  [] d = 4 -> "4" [] d = 5 -> "5" [] d = 6 -> "6" [] d = 7 -> "7"
                  [] d = 8 -> "8" [] d = 9 -> "9"

RECURSIVE IntStr(_)
IntStr(n) == IF n < 10 THEN <<DigitChar(n)>>
             ELSE IntStr(n \div 10) \o <<DigitChar(n % 10)>>

s_bool == <<"b", "o", "o", "l">>
s_uint8 == <<"u", "i", "n", "t", "8">>
s_uint16 == <<"u", "i", "n", "t", "1", "6">>
s_uint32 == <<"u", "i", "n", "t", "3", "2">>
s_uint64 == <<"u", "i", "n", "t", "6", "4">>
s_uint128 == <<"u", "i", "n", "t", "1", "2", "8">>
s_int8 == <<"i", "n", "t", "8">>
s_int16 == <<"i", "n", "t", "1", "6">>
s_int32 == <<"i", "n", "t", "3", "2">>
s_int64 == <<"i", "n", "t", "6", "4">>
s_int128 == <<"i", "n", "t", "1", "2", "8">>
s_varuint32 == <<"v", "a", "r", "u", "i", "n", "t", "3", "2">>
s_varint32 == <<"v", "a", "r", "i", "n", "t", "3", "2">>
s_float32 == <<"f", "l", "o", "a", "t", "3", "2">>
s_float64 == <<"f", "l", "o", "a", "t", "6", "4">>
s_bytes == <<"b", "y", "t", "e", "s">>
s_string == <<"s", "t", "r", "i", "n", "g">>
s_float128 == <<"f", "l", "o", "a", "t", "1", "2", "8">>
s_name == <<"n", "a", "m", "e">>
s_account_name == <<"a", "c", "c", "o", "u", "n", "t", "_", "n", "a", "m", "e">>
s_symbol == <<"s", "y", "m", "b", "o", "l">>
s_symbol_code == <<"s", "y", "m", "b", "o", "l", "_", "c", "o", "d", "e">>
s_rd160 == <<"r", "d", "1", "6", "0">>
s_checksum160 == <<"c", "h", "e", "c", "k", "s", "u", "m", "1", "6", "0">>
s_sha256 == <<"s", "h", "a", "2", "5", "6">>
s_checksum256 == <<"c", "h", "e", "c", "k", "s", "u", "m", "2", "5", "6">>
s_checksum512 == <<"c", "h", "e", "c", "k", "s", "u", "m", "5", "1", "2">>
s_time_point == <<"t", "i", "m", "e", "_", "p", "o", "i", "n", "t">>
s_time_point_sec == <<"t", "i", "m", "e", "_", "p", "o", "i", "n", "t", "_", "s", "e", "c">>
s_block_timestamp_type == <<"b", "l", "o", "c", "k", "_", "t", "i", "m", "e", "s", "t", "a", "m", "p", "_", "t", "y", "p", "e">>
s_public_key == <<"p", "u", "b", "l", "i", "c", "_", "k", "e", "y">>
s_signature == <<"s", "i", "g", "n", "a", "t", "u", "r", "e">>
s_raw16 == <<"r", "a", "w", "(", "1", "6", ")">>
s_raw20 == <<"r", "a", "w", "(", "2", "0", ")">>
s_raw32 == <<"r", "a", "w", "(", "3", "2", ")">>
s_raw34 == <<"r", "a", "w", "(", "3", "4", ")">>
s_raw64 == <<"r", "a", "w", "(", "6", "4", ")">>
s_raw66 == <<"r", "a", "w", "(", "6", "6", ")">>
s_asset == <<"a", "s", "s", "e", "t">>
s_extended_asset == <<"e", "x", "t", "e", "n", "d", "e", "d", "_", "a", "s", "s", "e", "t">>
s_amount == <<"a", "m", "o", "u", "n", "t">>
s_quantity == <<"q", "u", "a", "n", "t", "i", "t", "y">>
s_contract == <<"c", "o", "n", "t", "r", "a", "c", "t">>
s_structs == <<"s", "t", "r", "u", "c", "t", "s">>
s_enums == <<"e", "n", "u", "m", "s">>
s_aliases == <<"a", "l", "i", "a", "s", "e", "s">>
s_raw == <<"r", "a", "w">>
s_foo == <<"f", "o", "o">>

\* ------------------------------------------------------------------------
\* jitabi.sanitize / jitabi.utils: lexical checks
\* ------------------------------------------------------------------------

\* the body of _ID_PATTERN between ^ and $: [A-Za-z_][A-Za-z0-9_]*
IdBody(s) ==
    /\ Len(s) >= 1
    /\ s[1] \in IdStart
    /\ \A i \in 2..Len(s) : s[i] \in IdChar

\* Python's re: "$" matches at the end of the string and also just before a
\* newline that is the last character of the string
AtDollar(P(_), s) ==
    \/ P(s)
    \/ (Len(s) >= 1 /\ s[Len(s)] = "\n" /\ P(DropLast(s, 1)))

\* _ID_RE.match(name)
MatchesId(s) == AtDollar(IdBody, s)

\* the body of _RAW_TYPE_RE: raw\(\d+\)
RawBody(s) ==
    /\ Len(s) >= 6
    /\ SubSeq(s, 1, 4) = <<"r", "a", "w", "(">>
    /\ s[Len(s)] = ")"
    /\ IsDigit(SubSeq(s, 5, Len(s) - 1))

\* utils.is_raw_type
is_raw_type(name) == name = s_raw \/ AtDollar(RawBody, name)

\* the body of _TYPE_PATTERN: an identifier followed by any run of [] ? $
RECURSIVE TypeBody(_)
TypeBody(s) ==
    \/ IdBody(s)
    \/ (EndsWith(s, <<"[", "]">>) /\ TypeBody(DropLast(s, 2)))
    \/ (EndsWith(s, <<"?">>) /\ TypeBody(DropLast(s, 1)))
    \/ (EndsWith(s, <<"$">>) /\ TypeBody(DropLast(s, 1)))

\* sanitize.check_ident: TRUE when it returns, FALSE when it raises ValueError
check_ident(name, allow_raw) ==
    \/ MatchesId(name)
    \/ (allow_raw /\ is_raw_type(name))

\* sanitize.check_type: TRUE when it returns, FALSE when it raises ValueError
check_type(type_name) == AtDollar(TypeBody, type_name)

\* ------------------------------------------------------------------------
\* jitabi.protocol: built-in tables, modifiers, the resolver, the ABI hash
\* ------------------------------------------------------------------------

STD_TYPES ==
    {s_bool, s_uint8, s_uint16, s_uint32, s_uint64, s_uint128,
     s_int8, s_int16, s_int32, s_int64, s_int128, s_varuint32,
     s_varint32, s_float32, s_float64, s_bytes, s_string}

is_std_type(name) == name \in STD_TYPES

BUILTIN_ALIASES ==
    (s_float128 :> s_raw16) @@
    (s_name :> s_uint64) @@
    (s_account_name :> s_uint64) @@
    (s_symbol :> s_uint64) @@
    (s_symbol_code :> s_uint64) @@
    (s_rd160 :> s_raw20) @@
    (s_checksum160 :> s_raw20) @@
    (s_sha256 :> s_raw32) @@
    (s_checksum256 :> s_raw32) @@
    (s_checksum512 :> s_raw64) @@
    (s_time_point :> s_uint64) @@
    (s_time_point_sec :> s_uint32) @@
    (s_block_timestamp_type :> s_uint32) @@
    (s_public_key :> s_raw34) @@
    (s_signature :> s_raw66)

\* a field / struct / alias / variant record of an ABI document
FieldDef(n, t) == [name |-> n, type |-> t]
StructDef(n, b, fs) == [name |-> n, base |-> b, fields |-> fs]
AliasDef(n, t) == [new_type_name |-> n, type |-> t]
VariantDef(n, ts) == [name |-> n, types |-> ts]
ABIDef(ts, ss, vs) == [types |-> ts, structs |-> ss, variants |-> vs]

\* StructDef.base is None (or empty) when the struct has no base
NoBase == <<>>

BUILTIN_STRUCTS ==
    (s_asset :> StructDef(s_asset, NoBase,
                   <<FieldDef(s_amount, s_int64), FieldDef(s_symbol, s_symbol)>>)) @@
    (s_extended_asset :> StructDef(s_extended_asset, NoBase,
                   <<FieldDef(s_quantity, s_asset), FieldDef(s_contract, s_name)>>))

\* a dict built from a list by a comprehension: the last item of a key wins
LastIndex(seq, K(_), k) == SetMax({i \in 1..Len(seq) : K(seq[i]) = k})

\* split_type_modifiers: a record with err = None on return; "IndexError" when
\* name[-1] is read on an empty string; "TypeError" for a fixed-size array
RECURSIVE split_mods(_, _)
split_mods(name, mods) ==
    IF EndsWith(name, <<"[", "]">>)
      THEN split_mods(DropLast(name, 2), Append(mods, "ARRAY"))
    ELSE IF Len(name) = 0
      THEN [err |-> "IndexError", base |-> name, mods |-> mods]
    ELSE IF name[Len(name)] = "?"
      THEN split_mods(DropLast(name, 1), Append(mods, "OPTIONAL"))
    ELSE IF name[Len(name)] = "$"
      THEN split_mods(DropLast(name, 1), Append(mods, "EXTENSION"))
    ELSE IF /\ name[Len(name)] = "]"
            /\ RFind(name, "[") # -1
            /\ IsDigit(SubSeq(name, RFind(name, "[") + 2, Len(name) - 1))
      THEN [err |-> "TypeError", base |-> name, mods |-> mods]
    ELSE [err |-> None, base |-> name, mods |-> mods]

split_type_modifiers(name) == split_mods(name, <<>>)

\* ABIView.__init__: the three maps and valid_types
UserAliasNames(abi) == {abi.types[i].new_type_name : i \in 1..Len(abi.types)}
AliasKey(a) == a.new_type_name
DefName(d) == d.name

alias_map(abi) ==
    BUILTIN_ALIASES @@
    [n \in UserAliasNames(abi) |-> abi.types[LastIndex(abi.types, AliasKey, n)].type]

variant_map(abi) ==
    [n \in {abi.variants[i].name : i \in 1..Len(abi.variants)} |->
        abi.variants[LastIndex(abi.variants, DefName, n)]]

struct_map(abi) ==
    BUILTIN_STRUCTS @@
    [n \in {abi.structs[i].name : i \in 1..Len(abi.structs)} |->
        abi.structs[LastIndex(abi.structs, DefName, n)]]

valid_types(abi) ==
    STD_TYPES \cup DOMAIN struct_map(abi) \cup DOMAIN variant_map(abi)
              \cup DOMAIN alias_map(abi)

\* ABIView.is_valid_type
is_valid_type(abi, name) == name \in valid_types(abi) \/ is_raw_type(name)

\* ABIView.resolve_alias
resolve_alias(abi, name) ==
    IF name \in DOMAIN alias_map(abi) THEN alias_map(abi)[name] ELSE name

\* str.replace(' ', '')
RECURSIVE NoSpaces(_)
NoSpaces(s) ==
    IF s = <<>> THEN <<>>
    ELSE IF s[1] = " " THEN NoSpaces(Tail(s))
    ELSE <<s[1]>> \o NoSpaces(Tail(s))

\* str.split(',')
RECURSIVE SplitComma(_)
SplitComma(s) ==
    IF Find(s, ",") = -1 THEN <<s>>
    ELSE <<SubSeq(s, 1, Find(s, ","))>> \o
         SplitComma(SubSeq(s, Find(s, ",") + 2, Len(s)))

\* extract_type_params: err = "TypeError" when there is nothing between ( and )
extract_type_params(name) ==
    LET params_start == Find(name, "(") + 1
        params_end == RFind(name, ")")
    IN IF params_end <= params_start
         THEN [err |-> "TypeError", args |-> <<>>]
         ELSE [err |-> None,
               args |-> SplitComma(NoSpaces(SubSeq(name, params_start + 1, params_end)))]

\* the alias loop of ABIView.resolve_type
RECURSIVE follow_alias(_, _, _, _, _)
follow_alias(amap, base, mods, visited, is_alias) ==
    IF base \notin DOMAIN amap \/ amap[base] = <<>>
      THEN [err |-> None, base |-> base, mods |-> mods, is_alias |-> is_alias]
    ELSE IF base \in visited
      THEN [err |-> "CircularAlias", base |-> base, mods |-> mods, is_alias |-> is_alias]
    ELSE LET t == split_type_modifiers(amap[base])
         IN IF t.err # None
              THEN [err |-> t.err, base |-> base, mods |-> mods, is_alias |-> TRUE]
              ELSE follow_alias(amap, t.base, mods \o t.mods,
                                visited \cup {base}, TRUE)

ResolveError(e, original) ==
    [err |-> e, original_name |-> original, resolved_name |-> <<>>, args |-> <<>>,
     is_std |-> FALSE, is_alias |-> FALSE, is_struct |-> FALSE,
     is_variant |-> FALSE, modifiers |-> <<>>]

\* ABIView.resolve_type: err = None on return, else the exception raised
resolve_type(abi, name) ==
    LET s == split_type_modifiers(name)
    IN IF s.err # None THEN ResolveError(s.err, name)
       ELSE
       LET f == follow_alias(alias_map(abi), s.base, s.mods, {}, FALSE)
       IN IF f.err # None THEN ResolveError(f.err, name)
          ELSE IF ~is_valid_type(abi, f.base) THEN ResolveError("NotValidType", name)
          ELSE
          LET base == resolve_alias(abi, f.base)
              raw == is_raw_type(base)
              x == IF raw THEN extract_type_params(base)
                          ELSE [err |-> None, args |-> <<>>]
              rname == IF raw THEN s_raw ELSE base
          IN IF x.err # None THEN ResolveError(x.err, name)
             ELSE [err |-> None,
                   original_name |-> name,
                   resolved_name |-> rname,
                   args |-> x.args,
                   is_std |-> is_std_type(rname),
                   is_alias |-> f.is_alias,
                   is_struct |-> rname \in DOMAIN struct_map(abi),
                   is_variant |-> rname \in DOMAIN variant_map(abi),
                   modifiers |-> f.mods]

\* concatenation of a sequence of strings
RECURSIVE Concat(_)
Concat(ss) == IF ss = <<>> THEN <<>> ELSE Head(ss) \o Concat(Tail(ss))

SeqMap(F(_), seq) == [i \in 1..Len(seq) |-> F(seq[i])]

\* ABIView.hash: the bytes fed to sha256, in order (the digest is modelled by
\* its input: SHA-256 is taken to be collision-free)
HashField(f) == f.name \o f.type
HashStruct(s) == s.name \o Concat(SeqMap(HashField, s.fields))
HashVariant(e) == e.name \o Concat(e.types)
HashAlias(a) == a.new_type_name \o a.type

abi_hash(abi) ==
    s_structs \o Concat(SeqMap(HashStruct, abi.structs)) \o
    s_enums \o Concat(SeqMap(HashVariant, abi.variants)) \o
    s_aliases \o Concat(SeqMap(HashAlias, abi.types))

\* ------------------------------------------------------------------------
\* jitabi.cache / jitabi: build parameters, cache keys, fingerprints
\* ------------------------------------------------------------------------

\* the attributes of the dataclass ModuleParams
ModuleParamsFields == {"debug", "with_pack", "with_unpack"}

default_param_debug == FALSE
default_param_with_pack == TRUE
default_param_with_unpack == TRUE

\* dict.get(k, default) on a dict modelled as a function
DictGet(d, k, default) == IF k \in DOMAIN d THEN d[k] ELSE default

\* ModuleParams.from_dict
from_dict(d) ==
    [debug |-> DictGet(d, "debug", default_param_debug),
     with_pack |-> DictGet(d, "with_pack", default_param_with_pack),
     with_unpack |-> DictGet(d, "with_unpack", default_param_with_unpack)]

\* ModuleParams.as_dict (a dict with exactly the three keys)
as_dict(params) ==
    [k \in {"debug", "with_pack", "with_unpack"} |->
        CASE k = "debug" -> params.debug
          [] k = "with_pack" -> params.with_pack
          [] k = "with_unpack" -> params.with_unpack]

BoolInt(b) == IF b THEN 1 ELSE 0

\* ModuleParams.as_bytes
as_bytes(params) ==
    <<BoolInt(params.debug), BoolInt(params.with_pack), BoolInt(params.with_unpack)>>

\* codegen.hash_pipeline: a digest of the templates and generator modules,
\* the same for every call of one installation
hash_pipeline == "pipeline"

\* hash_abi_for_cache: sha256 over three fixed-width parts, modelled by its
\* input (SHA-256 taken to be collision-free)
hash_abi_for_cache(abi, params) ==
    [pipeline |-> hash_pipeline, abi |-> abi_hash(abi), params |-> as_bytes(params)]

\* str.replace('.', '_')
RECURSIVE DotsToUnderscores(_)
DotsToUnderscores(s) ==
    IF s = <<>> THEN <<>>
    ELSE <<IF s[1] = "." THEN "_" ELSE s[1]>> \o DotsToUnderscores(Tail(s))

\* JITContext._full_mod_name, given the current version of the name
full_mod_name(name, version) ==
    DotsToUnderscores(name) \o <<"_">> \o IntStr(version)

CacheKey(mod_name, src_hash, params) ==
    [mod_name |-> mod_name, src_hash |-> src_hash, params |-> params]

\* Cache.get_module_path: <root>/<mod_name>/<src_hash>
get_module_path(key) == [mod |-> key.mod_name, hash |-> key.src_hash]

\* ------------------------------------------------------------------------
\* jitabi.codegen.cpython: source generation
\* ------------------------------------------------------------------------

AllTrue(seq) == \A i \in 1..Len(seq) : seq[i]

FieldGenOk(abi, f) ==
    /\ check_ident(f.name, FALSE)
    /\ check_type(f.type)
    /\ resolve_type(abi, f.type).err = None

StructGenOk(abi, s) ==
    /\ check_ident(s.name, FALSE)
    /\ (s.base # <<>> => check_ident(s.base, FALSE))
    /\ \A i \in 1..Len(s.fields) : FieldGenOk(abi, s.fields[i])

\* the alias loop, then the comprehension that resolves every alias target
AliasGenOk(abi) ==
    /\ \A i \in 1..Len(abi.types) :
          /\ check_ident(abi.types[i].new_type_name, FALSE)
          /\ check_ident(abi.types[i].type, TRUE)
    /\ \A i \in 1..Len(abi.types) :
          resolve_type(abi,
              abi.types[LastIndex(abi.types, AliasKey,
                                  abi.types[i].new_type_name)].type).err = None

VariantGenOk(abi, e) ==
    /\ check_ident(e.name, FALSE)
    /\ \A i \in 1..Len(e.types) :
          /\ check_ident(e.types[i], FALSE)
          /\ resolve_type(abi, e.types[i]).err = None

\* try_c_source_from_abi returns (TRUE) or raises ValueError / TypeError (FALSE)
c_source_ok(name, abi) ==
    /\ check_ident(name, FALSE)
    /\ \A i \in 1..Len(abi.structs) : StructGenOk(abi, abi.structs[i])
    /\ AliasGenOk(abi)
    /\ \A i \in 1..Len(abi.variants) : VariantGenOk(abi, abi.variants[i])

\* the text c_source_from_abi returns: the module template rendered for the
\* module name and the functions of the ABI (abi_hash is not rendered)
c_source_from_abi(name, abi) == [m_name |-> name, abi |-> abi]

\* ------------------------------------------------------------------------
\* The filesystem under the cache root
\* ------------------------------------------------------------------------

AbsentFile == [kind |-> "absent"]
\* a file that a writer has opened and truncated but not finished
PartialFile == [kind |-> "partial"]
JsonFile(abi) == [kind |-> "json", abi |-> abi]
CFile(source) == [kind |-> "c", text |-> source]
SoFile(source, params) == [kind |-> "so", text |-> source, params |-> params]
ParamsFile(d) == [kind |-> "params", value |-> d]
LockFile == [kind |-> "lock"]

FileKinds == {"json", "c", "so", "params", "lock"}

EmptyDir == [f \in FileKinds |-> AbsentFile]

\* Path.is_file
is_file(content) == content # AbsentFile

NoModule == [kind |-> "none"]
NoSource == [kind |-> "none"]

\* a loaded extension module is identified by the artifact it was loaded from
ModuleOf(so) == [kind |-> "module", so |-> so]

CacheEntry(source, module) == [source |-> source, module |-> module]

\* ------------------------------------------------------------------------
\* Inputs of the model
\* ------------------------------------------------------------------------

s_s == <<"s">>
s_a == <<"a">>
s_zz == <<"z", "z">>

\* an ABI with one struct whose field has a built-in type
AbiGood == ABIDef(<<>>, <<StructDef(s_s, NoBase, <<FieldDef(s_a, s_uint8)>>)>>, <<>>)

\* an ABI whose struct field names a type that does not exist
AbiUnresolvable == ABIDef(<<>>, <<StructDef(s_s, NoBase, <<FieldDef(s_a, s_zz)>>)>>, <<>>)

Abis == {AbiGood, AbiUnresolvable}

Names == {s_foo}

EmptyDict == [k \in {} |-> FALSE]

\* the params argument of module_for_abi
ParamDicts == {EmptyDict, [k \in {"inlined"} |-> FALSE]}

\* an artifact directory as a complete build leaves it, without its .lock
CompleteDir(name, abi, params) ==
    [EmptyDir EXCEPT
        !["json"] = JsonFile(abi),
        !["c"] = CFile(c_source_from_abi(name, abi)),
        !["so"] = SoFile(c_source_from_abi(name, abi), params),
        !["params"] = ParamsFile(as_dict(params))]

DefaultParams == from_dict(EmptyDict)

Foo0 == full_mod_name(s_foo, 0)

Foo0Dir == [mod |-> Foo0, hash |-> hash_abi_for_cache(AbiGood, DefaultParams)]

\* the cache root when the first process starts: missing, empty, or holding
\* the complete artifact of foo_0 for AbiGood left by an earlier session
InitDisks ==
    {[root |-> FALSE, dirs |-> <<>>],
     [root |-> TRUE, dirs |-> <<>>],
     [root |-> TRUE, dirs |-> (Foo0Dir :> CompleteDir(Foo0, AbiGood, DefaultParams))]}

\* ------------------------------------------------------------------------
\* State
\* ------------------------------------------------------------------------

VARIABLES
    rootExists,  \* the cache root directory exists
    disk,        \* artifact directory -> its files (FileKinds -> content)
    locks,       \* flock holders: records [dir, proc, mode], mode "EX" or "SH"
    ctx,         \* per process: the JITContext (and its Cache) or none
    versions,    \* per process: JITContext._versions, logical name -> counter
    cache,       \* per process: Cache._cache, key -> CacheEntry
    pc,          \* per process: the statement the process is at
    call,        \* per process: the locals of the running module_for_abi (and
                 \* whether it began while another process was in a call)
    warmTodo,    \* per process: directories the warm-start scan has yet to visit
    ncalls,      \* calls of module_for_abi started so far
    nsess,       \* JITContext objects constructed so far
    result,      \* per process: how the last finished call ended
    succeeded,   \* per process: inputs of the calls that returned in this context
    disk0,       \* the artifact directories the cache root held before any session
    roWrote,     \* what readonly contexts created under the cache root
    test,        \* the locals of the round-trip test: type, value, bytes, result
    killed       \* the artifact directories a process was generating when it died

vars == <<rootExists, disk, locks, ctx, versions, cache, pc, call, warmTodo,
          ncalls, nsess, result, succeeded, disk0, roWrote, test, killed>>

NoCtx == [kind |-> "none"]
NoCall == [kind |-> "none"]
NoResult == [kind |-> "none"]
NoTest == [stage |-> "none"]

Init ==
    /\ \E d \in InitDisks : rootExists = d.root /\ disk = d.dirs
    /\ locks = {}
    /\ ctx = [p \in Procs |-> NoCtx]
    /\ versions = [p \in Procs |-> [n \in Names |-> 0]]
    /\ cache = [p \in Procs |-> <<>>]
    /\ pc = [p \in Procs |-> "none"]
    /\ call = [p \in Procs |-> NoCall]
    /\ warmTodo = [p \in Procs |-> {}]
    /\ ncalls = 0
    /\ nsess = 0
    /\ result = [p \in Procs |-> NoResult]
    /\ succeeded = [p \in Procs |-> {}]
    /\ disk0 = disk
    /\ roWrote = {}
    /\ test = NoTest
    /\ killed = {}

\* ------------------------------------------------------------------------
\* Cache.dir_lock / Cache._dir_lock_ipc
\* ------------------------------------------------------------------------

\* the value of `shared` when a caller does not pass it
dir_lock_default_shared == FALSE

\* the `shared` argument at each call of dir_lock
warm_lock_shared == dir_lock_default_shared
get_abi_source_lock_shared == dir_lock_default_shared
get_module_lock_shared == dir_lock_default_shared
\* a set_abi_source that takes the lock as readers should
set_abi_source_lock_as_reader == TRUE

set_abi_source_lock_shared == FALSE
compile_lock_shared == FALSE

\* fd_lock(fd, exclusive=not shared)
LockMode(shared) == IF shared THEN "SH" ELSE "EX"

Holders(d) == {l \in locks : l.dir = d}

\* flock grants LOCK_EX when nobody else holds the file and LOCK_SH when no
\* one else holds it exclusively; without IPC locking dir_lock only yields
CanLock(p, d, shared) ==
    \/ ~ctx[p].ipc_locked
    \/ IF shared THEN \A l \in Holders(d) : l.mode = "SH"
                 ELSE Holders(d) = {}

\* os.open(<dir>/.lock, O_RDWR | O_CREAT) fails when the directory is missing
LockOpens(p, d) == ~ctx[p].ipc_locked \/ d \in DOMAIN disk

LocksAfterAcquire(p, d, shared) ==
    IF ctx[p].ipc_locked
      THEN locks \cup {[dir |-> d, proc |-> p, mode |-> LockMode(shared)]}
      ELSE locks

DiskAfterAcquire(p, d) ==
    IF ctx[p].ipc_locked /\ d \in DOMAIN disk /\ ~is_file(disk[d]["lock"])
      THEN [disk EXCEPT ![d]["lock"] = LockFile]
      ELSE disk

\* readonly contexts that create something under the root are recorded
RoNote(p, what) == IF ctx[p].readonly THEN roWrote \cup {what} ELSE roWrote

RoWroteAfterAcquire(p, d) ==
    IF ctx[p].ipc_locked /\ d \in DOMAIN disk /\ ~is_file(disk[d]["lock"])
      THEN RoNote(p, "lock")
      ELSE roWrote

\* a with block that ends without fd_unlock
LocksKept(p) == locks

\* fd_unlock + os.close at the end of the with block
LocksAfterRelease(p) == {l \in locks : l.proc # p}

HoldsExclusive(p, d) == [dir |-> d, proc |-> p, mode |-> "EX"] \in locks

\* Path.mkdir(parents=True, exist_ok=True) of an artifact directory
DiskAfterMkdir(d) == IF d \in DOMAIN disk THEN disk ELSE disk @@ (d :> EmptyDir)

\* ------------------------------------------------------------------------
\* JITContext.__init__ / Cache.__init__ / Cache._warm_from_disk
\* ------------------------------------------------------------------------

\* the readonly argument Cache.__init__ receives from JITContext.__init__
CacheReadonlyArg(readonly) == FALSE

\* Cache.__init__ up to the warm-start scan: FALSE when it raises
CacheInitOk(cache_readonly) == cache_readonly => rootExists

RootAfterCacheInit(cache_readonly) == IF cache_readonly THEN rootExists ELSE TRUE

Construct(p) ==
    /\ pc[p] = "none"
    /\ nsess < MaxSessions
    /\ \E readonly \in BOOLEAN, ipc_locked \in BOOLEAN, has_compiler \in BOOLEAN :
          \* detect_working_compiler: a writable context needs a C compiler
          /\ readonly \/ has_compiler
          /\ CacheInitOk(CacheReadonlyArg(readonly))
          /\ rootExists' = RootAfterCacheInit(CacheReadonlyArg(readonly))
          /\ ctx' = [ctx EXCEPT ![p] =
                        [kind |-> "ctx", readonly |-> readonly,
                         cache_readonly |-> CacheReadonlyArg(readonly),
                         ipc_locked |-> ipc_locked]]
          /\ roWrote' = IF readonly /\ ~rootExists
                          THEN roWrote \cup {"root"} ELSE roWrote
    /\ nsess' = nsess + 1
    /\ cache' = [cache EXCEPT ![p] = <<>>]
    /\ versions' = [versions EXCEPT ![p] = [n \in Names |-> 0]]
    /\ succeeded' = [succeeded EXCEPT ![p] = {}]
    /\ warmTodo' = [warmTodo EXCEPT ![p] = DOMAIN disk]
    /\ pc' = [pc EXCEPT ![p] = IF DOMAIN disk = {} THEN "idle" ELSE "warm"]
    /\ call' = [call EXCEPT ![p] = NoCall]
    /\ result' = [result EXCEPT ![p] = NoResult]
    /\ UNCHANGED <<disk, locks, ncalls, disk0, test, killed>>

\* with self.dir_lock(src_hash_dir): of the warm-start scan
WarmLock(p) ==
    /\ pc[p] = "warm"
    /\ \E d \in warmTodo[p] :
          /\ CanLock(p, d, warm_lock_shared)
          /\ locks' = LocksAfterAcquire(p, d, warm_lock_shared)
          /\ disk' = DiskAfterAcquire(p, d)
          /\ roWrote' = RoWroteAfterAcquire(p, d)
          /\ call' = [call EXCEPT ![p] = [kind |-> "warm", dir |-> d]]
    /\ pc' = [pc EXCEPT ![p] = "warm_body"]
    /\ UNCHANGED <<rootExists, ctx, versions, cache, warmTodo, ncalls, nsess,
                   result, succeeded, disk0, test, killed>>

\* the body of the scan for one directory: "skip", "raise", or the entry
WarmOutcome(d, fs) ==
    IF ~is_file(fs["params"]) THEN [kind |-> "skip"]
    ELSE IF fs["params"].kind # "params" THEN [kind |-> "raise"]  \* json.loads
    ELSE IF ~({"debug", "with_pack", "with_unpack"} \subseteq DOMAIN fs["params"].value)
      THEN [kind |-> "skip"]
    ELSE IF DOMAIN fs["params"].value # ModuleParamsFields
      THEN [kind |-> "raise"]                                     \* ModuleParams(**params)
    ELSE IF ~is_file(fs["c"]) THEN [kind |-> "skip"]
    ELSE IF is_file(fs["so"]) /\ fs["so"].kind # "so"
      THEN [kind |-> "skip"]                                      \* import failed
    ELSE [kind |-> "entry",
          key |-> CacheKey(d.mod, d.hash, from_dict(fs["params"].value)),
          entry |-> CacheEntry(IF fs["c"].kind = "c" THEN fs["c"].text ELSE fs["c"],
                               IF is_file(fs["so"]) THEN ModuleOf(fs["so"])
                                                    ELSE NoModule)]

WarmBody(p) ==
    /\ pc[p] = "warm_body"
    /\ LET d == call[p].dir
           o == WarmOutcome(d, disk[d])
           rest == warmTodo[p] \ {d}
       IN /\ locks' = LocksAfterRelease(p)
          /\ IF o.kind = "raise"
               THEN /\ pc' = [pc EXCEPT ![p] = "none"]
                    /\ ctx' = [ctx EXCEPT ![p] = NoCtx]
                    /\ warmTodo' = [warmTodo EXCEPT ![p] = {}]
                    /\ cache' = [cache EXCEPT ![p] = <<>>]
               ELSE /\ pc' = [pc EXCEPT ![p] = IF rest = {} THEN "idle" ELSE "warm"]
                    /\ ctx' = ctx
                    /\ warmTodo' = [warmTodo EXCEPT ![p] = rest]
                    /\ cache' = IF o.kind = "entry"
                                  THEN [cache EXCEPT ![p] =
                                          (o.key :> o.entry) @@ @]
                                  ELSE cache
          /\ call' = [call EXCEPT ![p] = NoCall]
    /\ UNCHANGED <<rootExists, disk, versions, ncalls, nsess, result, succeeded,
                   disk0, roWrote, test, killed>>

\* the process ends its session: the context and its in-memory map are gone
Exit(p) ==
    /\ pc[p] = "idle"
    /\ nsess < MaxSessions
    /\ pc' = [pc EXCEPT ![p] = "none"]
    /\ ctx' = [ctx EXCEPT ![p] = NoCtx]
    /\ cache' = [cache EXCEPT ![p] = <<>>]
    /\ versions' = [versions EXCEPT ![p] = [n \in Names |-> 0]]
    /\ succeeded' = [succeeded EXCEPT ![p] = {}]
    /\ result' = [result EXCEPT ![p] = NoResult]
    /\ UNCHANGED <<rootExists, disk, locks, call, warmTodo, ncalls, nsess,
                   disk0, roWrote, test, killed>>

\* ------------------------------------------------------------------------
\* JITContext.module_for_abi and the Cache operations it calls
\* ------------------------------------------------------------------------

CallInputs(c) == [name |-> c.name, abi |-> c.abi, params |-> c.params]

\* the call returns (key, module)
Returns(p, module) ==
    /\ pc' = [pc EXCEPT ![p] = "idle"]
    /\ result' = [result EXCEPT ![p] =
                    [kind |-> "ok", key |-> call[p].key, module |-> module,
                     inputs |-> CallInputs(call[p]), force |-> call[p].force,
                     concurrent |-> call[p].concurrent]]
    /\ succeeded' = [succeeded EXCEPT ![p] = @ \cup {CallInputs(call[p])}]
    /\ call' = [call EXCEPT ![p] = NoCall]

\* the call raises exception `exc` while at stage `stage`
Raises(p, exc, stage) ==
    /\ pc' = [pc EXCEPT ![p] = "idle"]
    /\ result' = [result EXCEPT ![p] =
                    [kind |-> "raised", key |-> call[p].key, exc |-> exc,
                     stage |-> stage,
                     inputs |-> CallInputs(call[p]), force |-> call[p].force,
                     concurrent |-> call[p].concurrent]]
    /\ succeeded' = succeeded
    /\ call' = [call EXCEPT ![p] = NoCall]

\* a context that never refuses to build
ReadonlyNeverRaises(readonly) == FALSE

\* `if self.is_readonly: raise RuntimeError(...)`
ReadonlyRaises(readonly) == readonly

\* lines 206-218: parameters, view, key; then the first get_module
CallStart(p) ==
    /\ pc[p] = "idle"
    /\ ncalls < MaxCalls
    /\ \E name \in Names, abi \in Abis, d \in ParamDicts, force_reload \in BOOLEAN :
          /\ versions[p][name] < MaxVersion
          /\ LET params == from_dict(d)
                 key == CacheKey(full_mod_name(name, versions[p][name]),
                                 hash_abi_for_cache(abi, params), params)
             IN call' = [call EXCEPT ![p] =
                           [kind |-> "call", name |-> name, abi |-> abi,
                            params |-> params, force |-> force_reload,
                            key |-> key, site |-> 1, source |-> NoSource,
                            concurrent |-> \E q \in Procs \ {p} :
                                               call[q].kind = "call"]]
    /\ pc' = [pc EXCEPT ![p] = "gm_entry"]
    /\ ncalls' = ncalls + 1
    /\ result' = [result EXCEPT ![p] = NoResult]
    /\ UNCHANGED <<rootExists, disk, locks, ctx, versions, cache, warmTodo, nsess,
                   succeeded, disk0, roWrote, test, killed>>

\* the force_reload argument of get_module at the three places it is called
GetModuleForce(c) == IF c.site = 3 THEN TRUE ELSE c.force

\* what the caller of get_module does with its result:
\*   site 1: module_for_abi lines 218-227
\*   site 2: _compile_module lines 156-165
\*   site 3: _compile_module lines 178-185
AfterGetModule(p, module) ==
    LET c == call[p] IN
    IF c.site = 3
      THEN IF module = NoModule
             THEN Raises(p, "RuntimeError", "import")
             ELSE Returns(p, module)
    ELSE IF ~c.force /\ module # NoModule
      THEN Returns(p, module)
    ELSE IF ReadonlyRaises(ctx[p].readonly)
      THEN Raises(p, "RuntimeError", "readonly")
    ELSE /\ pc' = [pc EXCEPT ![p] = IF c.site = 1 THEN "mfa_mkdir" ELSE "cm_lock"]
         /\ call' = call
         /\ result' = result
         /\ succeeded' = succeeded

\* Cache.get_module lines 387-394: the in-memory lookup
GetModuleEntry(p) ==
    /\ pc[p] = "gm_entry"
    /\ LET key == call[p].key IN
       IF key \notin DOMAIN cache[p]
         THEN AfterGetModule(p, NoModule)
       ELSE IF ~GetModuleForce(call[p]) /\ cache[p][key].module # NoModule
         THEN AfterGetModule(p, cache[p][key].module)
       ELSE /\ pc' = [pc EXCEPT ![p] = "gm_lock"]
            /\ UNCHANGED <<call, result, succeeded>>
    /\ UNCHANGED <<rootExists, disk, locks, ctx, versions, cache, warmTodo,
                   ncalls, nsess, disk0, roWrote, test, killed>>

\* Cache.get_module line 397: with self.dir_lock(mod_dir_path)
GetModuleLock(p) ==
    /\ pc[p] = "gm_lock"
    /\ LET d == get_module_path(call[p].key) IN
       IF ~LockOpens(p, d)
         THEN /\ Raises(p, "FileNotFoundError", "lock")
              /\ UNCHANGED <<locks, disk, roWrote>>
         ELSE /\ CanLock(p, d, get_module_lock_shared)
              /\ locks' = LocksAfterAcquire(p, d, get_module_lock_shared)
              /\ disk' = DiskAfterAcquire(p, d)
              /\ roWrote' = RoWroteAfterAcquire(p, d)
              /\ pc' = [pc EXCEPT ![p] = "gm_body"]
              /\ UNCHANGED <<call, result, succeeded>>
    /\ UNCHANGED <<rootExists, ctx, versions, cache, warmTodo, ncalls, nsess, disk0, test,
                   killed>>

\* import_module of the artifact file: NoModule when the import raises
ImportModule(so) == IF so.kind = "so" THEN ModuleOf(so) ELSE NoModule

\* Cache.get_module lines 398-411, then the lock is released
GetModuleBody(p) ==
    /\ pc[p] = "gm_body"
    /\ LET key == call[p].key
           d == get_module_path(key)
           so == IF d \in DOMAIN disk THEN disk[d]["so"] ELSE AbsentFile
           module == IF is_file(so) THEN ImportModule(so) ELSE NoModule
       IN /\ cache' = IF module # NoModule
                        THEN [cache EXCEPT ![p][key].module = module]
                        ELSE cache
          /\ AfterGetModule(p, module)
    /\ locks' = LocksAfterRelease(p)
    /\ UNCHANGED <<rootExists, disk, ctx, versions, warmTodo, ncalls, nsess,
                   disk0, roWrote, test, killed>>

\* JITContext._inc_mod_name
inc_mod_name(v, name) == [v EXCEPT ![name] = @ + 1]

\* module_for_abi lines 231-235: the version is incremented, the directory made
MfaMkdir(p) ==
    /\ pc[p] = "mfa_mkdir"
    /\ LET d == get_module_path(call[p].key) IN
       /\ versions' = [versions EXCEPT ![p] = inc_mod_name(@, call[p].name)]
       /\ rootExists' = TRUE
       /\ disk' = DiskAfterMkdir(d)
       /\ roWrote' = IF d \in DOMAIN disk THEN roWrote ELSE RoNote(p, "dir")
    /\ pc' = [pc EXCEPT ![p] = "json_wbegin"]
    /\ UNCHANGED <<locks, ctx, cache, call, warmTodo, ncalls, nsess, result,
                   succeeded, disk0, test, killed>>

\* module_for_abi line 237: abi_location.write_bytes(...) opens the file
MfaJsonBegin(p) ==
    /\ pc[p] = "json_wbegin"
    /\ disk' = [disk EXCEPT ![get_module_path(call[p].key)]["json"] = PartialFile]
    /\ roWrote' = RoNote(p, "json")
    /\ pc' = [pc EXCEPT ![p] = "json_wend"]
    /\ UNCHANGED <<rootExists, locks, ctx, versions, cache, call, warmTodo, ncalls,
                   nsess, result, succeeded, disk0, test, killed>>

\* the write of the ABI file completes; _source_from_abi lines 120-126 begin
MfaJsonEnd(p) ==
    /\ pc[p] = "json_wend"
    /\ disk' = [disk EXCEPT ![get_module_path(call[p].key)]["json"] =
                   JsonFile(call[p].abi)]
    /\ LET key == call[p].key IN
       IF call[p].force
         THEN /\ pc' = [pc EXCEPT ![p] = "gen"]
              /\ call' = call
       ELSE IF key \in DOMAIN cache[p]
         \* get_abi_source lines 338-340: the in-memory source
         THEN /\ pc' = [pc EXCEPT ![p] = "gm_entry"]
              /\ call' = [call EXCEPT ![p].source = cache[p][key].source,
                                      ![p].site = 2]
       ELSE /\ pc' = [pc EXCEPT ![p] = "gas_lock"]
            /\ call' = call
    /\ UNCHANGED <<rootExists, locks, ctx, versions, cache, warmTodo, ncalls, nsess,
                   result, succeeded, disk0, roWrote, test, killed>>

\* Cache.get_abi_source line 344: with self.dir_lock(module_path)
GetAbiSourceLock(p) ==
    /\ pc[p] = "gas_lock"
    /\ LET d == get_module_path(call[p].key) IN
       IF ~LockOpens(p, d)
         THEN /\ Raises(p, "FileNotFoundError", "lock")
              /\ UNCHANGED <<locks, disk, roWrote>>
         ELSE /\ CanLock(p, d, get_abi_source_lock_shared)
              /\ locks' = LocksAfterAcquire(p, d, get_abi_source_lock_shared)
              /\ disk' = DiskAfterAcquire(p, d)
              /\ roWrote' = RoWroteAfterAcquire(p, d)
              /\ pc' = [pc EXCEPT ![p] = "gas_body"]
              /\ UNCHANGED <<call, result, succeeded>>
    /\ UNCHANGED <<rootExists, ctx, versions, cache, warmTodo, ncalls, nsess, disk0, test,
                   killed>>

\* dict.setdefault(key, CacheEntry.from_source(source)).source = source
SetSource(m, key, source) ==
    IF key \in DOMAIN m THEN [m EXCEPT ![key].source = source]
                        ELSE (key :> CacheEntry(source, NoModule)) @@ m

\* the text read_text returns for a source file
ReadText(c) == IF c.kind = "c" THEN c.text ELSE c

\* Cache.get_abi_source lines 345-353, then the lock is released
GetAbiSourceBody(p) ==
    /\ pc[p] = "gas_body"
    /\ LET key == call[p].key
           c == disk[get_module_path(key)]["c"]
       IN IF is_file(c)
            THEN /\ cache' = [cache EXCEPT ![p] = SetSource(@, key, ReadText(c))]
                 /\ call' = [call EXCEPT ![p].source = ReadText(c), ![p].site = 2]
                 /\ pc' = [pc EXCEPT ![p] = "gm_entry"]
            ELSE /\ cache' = cache
                 /\ call' = call
                 /\ pc' = [pc EXCEPT ![p] = "gen"]
    /\ locks' = LocksAfterRelease(p)
    /\ UNCHANGED <<rootExists, disk, ctx, versions, warmTodo, ncalls, nsess, result,
                   succeeded, disk0, roWrote, test, killed>>

\* _source_from_abi lines 128-138 and set_abi_source lines 364-373
Generate(p) ==
    /\ pc[p] = "gen"
    /\ LET key == call[p].key
           d == get_module_path(key)
           source == c_source_from_abi(key.mod_name, call[p].abi)
       IN IF ReadonlyRaises(ctx[p].readonly)
            THEN /\ Raises(p, "RuntimeError", "readonly")
                 /\ UNCHANGED <<cache, disk, rootExists, roWrote>>
          ELSE IF ~c_source_ok(key.mod_name, call[p].abi)
            THEN /\ Raises(p, "GenerationError", "generate")
                 /\ UNCHANGED <<cache, disk, rootExists, roWrote>>
          ELSE IF ctx[p].cache_readonly
            THEN /\ Raises(p, "RuntimeError", "set_abi_source")
                 /\ UNCHANGED <<cache, disk, rootExists, roWrote>>
          ELSE /\ cache' = [cache EXCEPT ![p] = SetSource(@, key, source)]
               /\ disk' = DiskAfterMkdir(d)
               /\ rootExists' = TRUE
               /\ roWrote' = IF d \in DOMAIN disk THEN roWrote ELSE RoNote(p, "dir")
               /\ call' = [call EXCEPT ![p].source = source]
               /\ pc' = [pc EXCEPT ![p] = "sas_lock"]
               /\ UNCHANGED <<result, succeeded>>
    /\ UNCHANGED <<locks, ctx, versions, warmTodo, ncalls, nsess, disk0, test, killed>>

\* Cache.set_abi_source line 374: with self.dir_lock(src_dir, shared=False)
SetAbiSourceLock(p) ==
    /\ pc[p] = "sas_lock"
    /\ LET d == get_module_path(call[p].key) IN
       /\ CanLock(p, d, set_abi_source_lock_shared)
       /\ locks' = LocksAfterAcquire(p, d, set_abi_source_lock_shared)
       /\ disk' = DiskAfterAcquire(p, d)
       /\ roWrote' = RoWroteAfterAcquire(p, d)
    /\ pc' = [pc EXCEPT ![p] = "sas_wbegin"]
    /\ UNCHANGED <<rootExists, ctx, versions, cache, call, warmTodo, ncalls, nsess,
                   result, succeeded, disk0, test, killed>>

\* Cache.set_abi_source line 375: write_text opens the source file
SetAbiSourceBegin(p) ==
    /\ pc[p] = "sas_wbegin"
    /\ disk' = [disk EXCEPT ![get_module_path(call[p].key)]["c"] = PartialFile]
    /\ roWrote' = RoNote(p, "c")
    /\ pc' = [pc EXCEPT ![p] = "sas_wend"]
    /\ UNCHANGED <<rootExists, locks, ctx, versions, cache, call, warmTodo, ncalls,
                   nsess, result, succeeded, disk0, test, killed>>

\* the write completes and the lock is released; _compile_module begins
SetAbiSourceEnd(p) ==
    /\ pc[p] = "sas_wend"
    /\ disk' = [disk EXCEPT ![get_module_path(call[p].key)]["c"] =
                   CFile(call[p].source)]
    /\ locks' = LocksAfterRelease(p)
    /\ call' = [call EXCEPT ![p].site = 2]
    /\ pc' = [pc EXCEPT ![p] = "gm_entry"]
    /\ UNCHANGED <<rootExists, ctx, versions, cache, warmTodo, ncalls, nsess,
                   result, succeeded, disk0, roWrote, test, killed>>

\* _compile_module line 170: with self._cache.dir_lock(output_dir, shared=False)
CompileLock(p) ==
    /\ pc[p] = "cm_lock"
    /\ LET d == get_module_path(call[p].key) IN
       /\ CanLock(p, d, compile_lock_shared)
       /\ locks' = LocksAfterAcquire(p, d, compile_lock_shared)
       /\ disk' = DiskAfterAcquire(p, d)
       /\ roWrote' = RoWroteAfterAcquire(p, d)
    /\ pc' = [pc EXCEPT ![p] = "cm_wbegin"]
    /\ UNCHANGED <<rootExists, ctx, versions, cache, call, warmTodo, ncalls, nsess,
                   result, succeeded, disk0, test, killed>>

\* compile_module lines 162-167: the build directory, the source file opened
CompileWriteBegin(p) ==
    /\ pc[p] = "cm_wbegin"
    /\ LET d == get_module_path(call[p].key) IN
       /\ disk' = [DiskAfterMkdir(d) EXCEPT ![d]["c"] = PartialFile]
       /\ roWrote' = RoNote(p, "c")
    /\ rootExists' = TRUE
    /\ pc' = [pc EXCEPT ![p] = "cm_wend"]
    /\ UNCHANGED <<locks, ctx, versions, cache, call, warmTodo, ncalls, nsess,
                   result, succeeded, disk0, test, killed>>

\* reading attribute `attr` of a ModuleParams object: FALSE when it raises
\* AttributeError
HasAttr(attr) == attr \in ModuleParamsFields

\* compile_module lines 167-187: the source is written, the defines are
\* collected from build_params (debug, inlined, with_unpack, with_pack), the
\* compiler runs and params.json is written; then the lock is released and
\* _compile_module lines 178-185 import the artifact
CompileWriteEnd(p) ==
    /\ pc[p] = "cm_wend"
    /\ LET key == call[p].key
           d == get_module_path(key)
           written == [disk EXCEPT ![d]["c"] = CFile(call[p].source)]
       IN IF /\ HasAttr("debug") /\ HasAttr("inlined")
             /\ HasAttr("with_unpack") /\ HasAttr("with_pack")
            THEN /\ disk' = [written EXCEPT
                               ![d]["so"] = SoFile(call[p].source, key.params),
                               ![d]["params"] = ParamsFile(as_dict(key.params))]
                 /\ call' = [call EXCEPT ![p].site = 3]
                 /\ pc' = [pc EXCEPT ![p] = "gm_entry"]
                 /\ UNCHANGED <<result, succeeded>>
            ELSE /\ disk' = written
                 /\ Raises(p, "AttributeError", "compile")
    /\ locks' = LocksAfterRelease(p)
    /\ UNCHANGED <<rootExists, ctx, versions, cache, warmTodo, ncalls, nsess,
                   disk0, roWrote, test, killed>>

Next ==
    \E p \in Procs :
        \/ Construct(p)
        \/ WarmLock(p)
        \/ WarmBody(p)
        \/ Exit(p)
        \/ CallStart(p)
        \/ GetModuleEntry(p)
        \/ GetModuleLock(p)
        \/ GetModuleBody(p)
        \/ MfaMkdir(p)
        \/ MfaJsonBegin(p)
        \/ MfaJsonEnd(p)
        \/ GetAbiSourceLock(p)
        \/ GetAbiSourceBody(p)
        \/ Generate(p)
        \/ SetAbiSourceLock(p)
        \/ SetAbiSourceBegin(p)
        \/ SetAbiSourceEnd(p)
        \/ CompileLock(p)
        \/ CompileWriteBegin(p)
        \/ CompileWriteEnd(p)

Spec == Init /\ [][Next]_vars

\* ------------------------------------------------------------------------
\* Properties
\* ------------------------------------------------------------------------

InCall(p) == call[p].kind = "call"
HasCtx(p) == ctx[p].kind = "ctx"
Writable(p) == HasCtx(p) /\ ~ctx[p].readonly
Readonly(p) == HasCtx(p) /\ ctx[p].readonly
Finished(p) == result[p].kind # "none"
DirOf(p) == get_module_path(call[p].key)

\* the stages of a call after the first get_module came back empty
BuildStages == {"mfa_mkdir", "json_wbegin", "json_wend", "gas_lock", "gas_body",
                "gen", "sas_lock", "sas_wbegin", "sas_wend",
                "cm_lock", "cm_wbegin", "cm_wend"}
CompileStages == {"cm_lock", "cm_wbegin", "cm_wend"}
Building(p) == InCall(p) /\ (pc[p] \in BuildStages \/ call[p].site > 1)

\* a file of the directory is open for writing by p
Writing(p) == InCall(p) /\ pc[p] \in {"json_wend", "sas_wend", "cm_wend"}
\* the files a process at stage s has open for writing, and those it reads
WritesAt(s) == IF s = "json_wend" THEN {"json"}
               ELSE IF s = "sas_wend" THEN {"c"}
               ELSE IF s = "cm_wend" THEN {"c", "so", "params"}
               ELSE {}
ReadsAt(s) == IF s = "warm_body" THEN {"params", "c", "so"}
              ELSE IF s = "gas_body" THEN {"c"}
              ELSE IF s = "gm_body" THEN {"so"}
              ELSE {}
\* p is inside a read-only cache operation
ReaderStages == {"warm_body", "gas_body", "gm_body"}
WriterStages == {"sas_wbegin", "sas_wend", "cm_wbegin", "cm_wend"}

\* an artifact directory with source, compiled artifact and params.json
Complete(fs) == fs["c"].kind = "c" /\ fs["so"].kind = "so" /\ fs["params"].kind = "params"
WellFormed(dk, d) == d \notin DOMAIN dk \/ Complete(dk[d])

\* C1: within one writable context, once a call with some name, ABI and params
\* has returned, no later call with the same inputs and force_reload=false
\* generates or compiles again, and none of them raises
C1_ReuseWithinContext ==
    \A p \in Procs : Writable(p) =>
        /\ (InCall(p) /\ ~call[p].force /\ CallInputs(call[p]) \in succeeded[p])
              => ~Building(p)
        /\ (Finished(p) /\ result[p].kind = "raised" /\ ~result[p].force)
              => result[p].inputs \notin succeeded[p]

\* the two processes each made one call, at the same time, with the same
\* generatable inputs, against a cache that began empty, with IPC locking
C2_Scenario(p, q) ==
    /\ p # q /\ disk0 = <<>> /\ ncalls = 2 /\ nsess = 2
    /\ Writable(p) /\ Writable(q) /\ ctx[p].ipc_locked /\ ctx[q].ipc_locked
    /\ Finished(p) /\ Finished(q) /\ ~InCall(p) /\ ~InCall(q)
    /\ result[p].inputs = result[q].inputs
    /\ ~result[p].force /\ ~result[q].force
    /\ result[q].concurrent
    /\ c_source_ok(result[p].key.mod_name, result[p].inputs.abi)

\* C2: two simultaneous calls with identical inputs against an empty cache
\* leave exactly one artifact directory, both return a module, and neither
\* process reads a file of the directory while the other is writing one
C2_ConcurrentCallsBothReturn ==
    \A p, q \in Procs :
        /\ C2_Scenario(p, q) =>
              /\ result[p].kind = "ok" /\ result[q].kind = "ok"
              /\ Cardinality(DOMAIN disk) = 1
        /\ (p # q /\ disk0 = <<>> /\ HasCtx(p) /\ HasCtx(q)
              /\ ctx[p].ipc_locked /\ ctx[q].ipc_locked
              /\ InCall(p) /\ InCall(q) /\ DirOf(p) = DirOf(q))
              => WritesAt(pc[p]) \cap ReadsAt(pc[q]) = {}

\* C3: of two processes racing on one key, only one reaches the compile step;
\* the other loads what the first wrote instead of building again
C3_LoserLoadsArtifact ==
    \A p, q \in Procs :
        (p # q /\ InCall(p) /\ InCall(q) /\ call[p].key = call[q].key
           /\ ctx[p].ipc_locked /\ ctx[q].ipc_locked
           /\ ~call[p].force /\ ~call[q].force)
        => ~(pc[p] \in CompileStages /\ pc[q] \in CompileStages)

\* C4: when a call raises out of source generation or compilation, the
\* artifact directory of its key is then either absent or complete
C4_ErrorLeavesDirWellFormed ==
    [][\A p \in Procs :
          (pc[p] # "idle" /\ pc'[p] = "idle" /\ result'[p].kind = "raised"
             /\ result'[p].stage \in {"generate", "compile"})
          => WellFormed(disk', get_module_path(result'[p].key))]_vars

\* the build of a miss never starts in a readonly context
ReadonlyNeverBuilds(p) ==
    /\ ~Building(p)
    /\ \A n \in Names : versions[p][n] = 0
    /\ roWrote \cap {"dir", "json", "c", "so", "params"} = {}

\* C6: in a readonly context a call for a key without a cached module raises,
\* and neither generates, compiles, creates the artifact directory nor changes
\* the version counter of the name
C6_ReadonlyMissRaises ==
    \A p \in Procs : Readonly(p) =>
        /\ ReadonlyNeverBuilds(p)
        /\ (Finished(p) /\ result[p].kind = "ok")
              => /\ result[p].key \in DOMAIN cache[p]
                 /\ cache[p][result[p].key].module = result[p].module
        /\ (Finished(p) /\ result[p].key \notin DOMAIN cache[p])
              => result[p].kind = "raised"

\* a readonly call missed and raised, and the directory of its key is absent
C6_Witness ==
    \E p \in Procs :
        /\ Readonly(p) /\ Finished(p) /\ ~result[p].force
        /\ result[p].key \notin DOMAIN cache[p]
        /\ result[p].kind = "raised" /\ result[p].stage = "readonly"
        /\ get_module_path(result[p].key) \notin DOMAIN disk
        /\ versions[p][result[p].inputs.name] = 0

\* C8: with IPC locking, a process that has a file of an artifact directory
\* open for writing holds that directory's lock exclusively
C8_WritesUnderExclusiveLock ==
    \A p \in Procs :
        (HasCtx(p) /\ ctx[p].ipc_locked /\ Writing(p)) => HoldsExclusive(p, DirOf(p))

\* C9: the read-only cache operations hold the directory lock in shared mode,
\* set_abi_source and the compile step hold it exclusively
C9_ReadersSharedWritersExclusive ==
    \A l \in locks :
        /\ pc[l.proc] \in ReaderStages => l.mode = "SH"
        /\ pc[l.proc] \in WriterStages => l.mode = "EX"

\* C10: a readonly context never creates a file or a directory under the
\* cache root, the root and the .lock files included
C10_ReadonlyNeverWrites == roWrote = {}

\* a complete artifact directory for these inputs was on disk before the
\* session began, as an earlier session that built them leaves it
Persisted(inp) ==
    \E v \in 0..MaxVersion :
        LET d == get_module_path(CacheKey(full_mod_name(inp.name, v),
                                          hash_abi_for_cache(inp.abi, inp.params),
                                          inp.params))
        IN d \in DOMAIN disk0 /\ Complete(disk0[d])

\* C7: a context opened on a cache root that holds a persisted artifact
\* returns a module for the artifact's name, ABI and params without building
C7_LaterSessionReuses ==
    \A p \in Procs : HasCtx(p) =>
        /\ (InCall(p) /\ ~call[p].force /\ Persisted(CallInputs(call[p])))
              => ~Building(p)
        /\ (Finished(p) /\ ~result[p].force /\ Persisted(result[p].inputs))
              => result[p].kind = "ok"

\* ------------------------------------------------------------------------
\* The round-trip test: host values and the type-directed generator
\* ------------------------------------------------------------------------

\* the values pack_* accepts and unpack_* returns (IOTypes)
VNone == [k |-> "none"]
VBool(b) == [k |-> "bool", b |-> b]
VInt(n) == [k |-> "int", n |-> n]
VStr(s) == [k |-> "str", s |-> s]
VBytes(bs) == [k |-> "bytes", bs |-> bs]
VList(xs) == [k |-> "list", xs |-> xs]
\* a dict keeps its keys in insertion order: a sequence of entries
VDict(es) == [k |-> "dict", es |-> es]
Entry(key, val) == [key |-> key, val |-> val]

\* Python's `not value`
Falsy(v) ==
    CASE v.k = "none" -> TRUE
      [] v.k = "bool" -> ~v.b
      [] v.k = "int"  -> v.n = 0
      [] v.k = "str"  -> v.s = <<>>
      [] v.k = "bytes" -> v.bs = <<>>
      [] v.k = "list" -> v.xs = <<>>
      [] v.k = "dict" -> v.es = <<>>

DictKeys(es) == {es[i].key : i \in 1..Len(es)}
DictGetVal(es, key) == es[CHOOSE i \in 1..Len(es) : es[i].key = key].val
\* d[key] = val: a present key keeps its position
DictSet(es, key, val) ==
    IF key \in DictKeys(es)
      THEN [i \in 1..Len(es) |-> IF es[i].key = key THEN Entry(key, val) ELSE es[i]]
      ELSE Append(es, Entry(key, val))
\* a | b, and a dict display with the entries of b
RECURSIVE DictUpdate(_, _)
DictUpdate(a, b) ==
    IF b = <<>> THEN a
    ELSE DictUpdate(DictSet(a, Head(b).key, Head(b).val), Tail(b))

s_type == <<"t", "y", "p", "e">>

\* ABI._aliases: the aliases of the document, then the default ones
maybe_resolve_alias(abi, name) ==
    IF \E i \in 1..Len(abi.types) : abi.types[i].new_type_name = name
      THEN abi.types[SetMin({i \in 1..Len(abi.types) :
                                abi.types[i].new_type_name = name})].type
    ELSE IF name \in DOMAIN BUILTIN_ALIASES THEN BUILTIN_ALIASES[name]
    ELSE <<>>

\* ABI._struct_dict and ABI._enum_dict: a later definition replaces an earlier
DEFAULT_STRUCTS == <<BUILTIN_STRUCTS[s_asset], BUILTIN_STRUCTS[s_extended_asset]>>
json_structs(abi) == abi.structs \o DEFAULT_STRUCTS
is_struct_type(abi, name) ==
    \E i \in 1..Len(json_structs(abi)) : json_structs(abi)[i].name = name
struct_dict(abi, name) == json_structs(abi)[LastIndex(json_structs(abi), DefName, name)]
is_enum_type(abi, name) ==
    \E i \in 1..Len(abi.variants) : abi.variants[i].name = name
enum_dict(abi, name) == abi.variants[LastIndex(abi.variants, DefName, name)]

json_is_valid_type(abi, name) ==
    \/ is_std_type(name)
    \/ is_raw_type(name)
    \/ is_struct_type(abi, name)
    \/ is_enum_type(abi, name)
    \/ name \in DOMAIN BUILTIN_ALIASES
    \/ \E i \in 1..Len(abi.types) : abi.types[i].new_type_name = name

\* the outermost modifier only
maybe_extract_type_mods(name) ==
    LET sp == split_type_modifiers(name)
    IN [err |-> sp.err, base |-> sp.base,
        modifier |-> IF sp.mods = <<>> THEN "NONE" ELSE sp.mods[1]]

\* ABI.resolve_type: an alias is followed only when the whole expression
\* names it; otherwise the modifiers are stripped and the outermost is kept
RECURSIVE json_resolve_type(_, _)
json_resolve_type(abi, name) ==
    LET maybe_resolved == maybe_resolve_alias(abi, name) IN
    IF maybe_resolved # <<>>
      THEN [json_resolve_type(abi, maybe_resolved) EXCEPT !.original_name = name]
    ELSE
      LET raw == is_raw_type(name)
          ep == IF raw THEN extract_type_params(name) ELSE [err |-> None, args |-> <<>>]
          args == ep.args
          ex == maybe_extract_type_mods(IF raw THEN s_raw ELSE name)
      IN IF ep.err # None
           THEN [err |-> ep.err, original_name |-> name, resolved_name |-> name,
                 args |-> <<>>, is_std |-> FALSE, modifier |-> "NONE"]
         ELSE IF ex.err # None
           THEN [err |-> ex.err, original_name |-> name, resolved_name |-> name,
                 args |-> args, is_std |-> FALSE, modifier |-> "NONE"]
         ELSE IF ~json_is_valid_type(abi, ex.base)
           THEN [err |-> "TypeError", original_name |-> name, resolved_name |-> ex.base,
                 args |-> args, is_std |-> FALSE, modifier |-> "NONE"]
         ELSE [err |-> None, original_name |-> name, resolved_name |-> ex.base,
               args |-> args, is_std |-> is_std_type(ex.base),
               modifier |-> ex.modifier]

LastChar(s) == s[Len(s)]

\* the sampled outputs of random_std_type
RandomUint8 == {0, 1, 255}
RandomUint16 == {0, 256, 65535}
RandomInt8 == {0 - 128, 0 - 1, 0, 127}
RandomString == {<<>>, <<"a">>}
RandomBytes == {<<>>, <<7>>}
RandomByte == {0, 255}

random_std_type(type_name) ==
    IF type_name = s_bool THEN {VBool(b) : b \in BOOLEAN}
    ELSE IF type_name = s_uint8 THEN {VInt(n) : n \in RandomUint8}
    ELSE IF type_name = s_uint16 THEN {VInt(n) : n \in RandomUint16}
    ELSE IF type_name = s_int8 THEN {VInt(n) : n \in RandomInt8}
    ELSE IF type_name = s_string THEN {VStr(s) : s \in RandomString}
    ELSE IF type_name = s_bytes THEN {VBytes(bs) : bs \in RandomBytes}
    ELSE {}

\* the sampled outputs of random_std_type('raw(N)'): N equal bytes
RECURSIVE DecimalValue(_)
DecimalValue(s) ==
    IF s = <<>> THEN 0
    ELSE 10 * DecimalValue(DropLast(s, 1))
         + (CHOOSE d \in 0..9 : DigitChar(d) = LastChar(s))
random_raw(size) == {VBytes([i \in 1..size |-> b]) : b \in RandomByte}

\* the defaults of random_of, in hundredths
max_list_size == 2
chance_of_none == 50
chance_delta == 50
ChanceCertain == 100

\* rng.random() lies in [0, 1): it can be below 1 - chance exactly when
\* chance is below 1
CanReturnNone(chance) == chance < ChanceCertain

\* the loop that clears the extension fields after the first empty one:
\* zip(fields, list(obj.values())) pairs the i-th own field with the i-th value
RECURSIVE ClearExtensions(_, _, _, _, _)
ClearExtensions(fields, values, i, found_extension, obj) ==
    IF i > Len(fields) \/ i > Len(values) THEN obj
    ELSE LET found == found_extension
                        \/ (LastChar(fields[i].type) = "$" /\ Falsy(values[i]))
         IN ClearExtensions(fields, values, i + 1, found,
                            IF found THEN DictSet(obj, fields[i].name, VNone) ELSE obj)

\* ABI.random_of: every value the generator can return for the type
RECURSIVE random_of(_, _, _)
RECURSIVE random_fields(_, _)
random_fields(abi, fields) ==
    IF fields = <<>> THEN {<<>>}
    ELSE {<<Entry(Head(fields).name, v)>> \o rest :
             v \in random_of(abi, Head(fields).type, chance_of_none),
             rest \in random_fields(abi, Tail(fields))}

random_of(abi, type_name, chance) ==
    LET resolved == json_resolve_type(abi, type_name)
        res_type == resolved.resolved_name
    IN IF resolved.err # None THEN {}
       ELSE IF resolved.modifier = "ARRAY"
         THEN {VList(xs) :
                 xs \in [1..max_list_size -> random_of(abi, res_type, chance_of_none)]}
       ELSE IF resolved.modifier \in {"OPTIONAL", "EXTENSION"}
         THEN (IF CanReturnNone(chance) THEN {VNone} ELSE {})
              \cup random_of(abi, res_type,
                             IF chance + chance_delta < ChanceCertain
                               THEN chance + chance_delta ELSE ChanceCertain)
       ELSE IF is_raw_type(res_type) THEN random_raw(DecimalValue(resolved.args[1]))
       ELSE IF is_std_type(res_type) THEN random_std_type(res_type)
       ELSE IF is_enum_type(abi, res_type)
         THEN LET types == enum_dict(abi, res_type).types IN
              UNION {{IF obj.k = "dict"
                        THEN VDict(DictUpdate(<<Entry(s_type, VStr(types[i]))>>, obj.es))
                        ELSE obj :
                      obj \in random_of(abi, types[i], chance_of_none)} :
                     i \in 1..Len(types)}
       ELSE IF ~is_struct_type(abi, res_type) THEN {}
       ELSE LET struct == struct_dict(abi, res_type)
                bases == IF struct.base = NoBase THEN {<<>>}
                         ELSE {b.es : b \in {x \in random_of(abi, struct.base, chance_of_none) :
                                                x.k = "dict"}}
            IN {VDict(LET obj == DictUpdate(base, DictUpdate(<<>>, own))
                      IN ClearExtensions(struct.fields,
                                         [i \in 1..Len(obj) |-> obj[i].val],
                                         1, FALSE, obj)) :
                  base \in bases, own \in random_fields(abi, struct.fields)}

\* ------------------------------------------------------------------------
\* The wire codec (pack_<T> / unpack_<T> of a generated module)
\* ------------------------------------------------------------------------

PackOk(bs) == [ok |-> TRUE, bytes |-> bs]
PackErr == [ok |-> FALSE, bytes |-> <<>>]

\* LEB128 of an unsigned number
RECURSIVE varuint32(_)
varuint32(n) ==
    IF n < 128 THEN <<n>> ELSE <<128 + (n % 128)>> \o varuint32(n \div 128)

\* n as nbytes little-endian bytes
RECURSIVE LittleEndian(_, _)
LittleEndian(n, nbytes) ==
    IF nbytes = 0 THEN <<>> ELSE <<n % 256>> \o LittleEndian(n \div 256, nbytes - 1)

RECURSIVE Pow2(_)
Pow2(n) == IF n = 0 THEN 1 ELSE 2 * Pow2(n - 1)

\* the fixed-width integer types of the test set: bits, signed
IntTypes == {s_uint8, s_uint16, s_int8, s_int16}
IntBits(type_name) == IF type_name \in {s_uint8, s_int8} THEN 8 ELSE 16
IntSigned(type_name) == type_name \in {s_int8, s_int16}

\* character codes of the ASCII letters the generator draws strings from
LowerSeq == <<"a","b","c","d","e","f","g","h","i","j","k","l","m",
              "n","o","p","q","r","s","t","u","v","w","x","y","z">>
CharCode(c) == 96 + CHOOSE i \in 1..Len(LowerSeq) : LowerSeq[i] = c
IsCharCode(b) == b - 96 \in 1..Len(LowerSeq)
CodeChar(b) == LowerSeq[b - 96]

pack_int(type_name, v) ==
    LET bits == IntBits(type_name)
        lo == IF IntSigned(type_name) THEN 0 - Pow2(bits - 1) ELSE 0
        hi == IF IntSigned(type_name) THEN Pow2(bits - 1) - 1 ELSE Pow2(bits) - 1
    IN IF v.k # "int" THEN PackErr
       ELSE IF v.n < lo \/ v.n > hi THEN PackErr
       ELSE PackOk(LittleEndian((v.n + Pow2(bits)) % Pow2(bits), bits \div 8))

pack_std(type_name, v) ==
    IF type_name = s_bool
      THEN IF v.k = "bool" THEN PackOk(<<IF v.b THEN 1 ELSE 0>>) ELSE PackErr
    ELSE IF type_name \in IntTypes THEN pack_int(type_name, v)
    ELSE IF type_name = s_varuint32
      THEN IF v.k = "int" /\ v.n >= 0 THEN PackOk(varuint32(v.n)) ELSE PackErr
    ELSE IF type_name = s_string
      THEN IF v.k = "str"
             THEN PackOk(varuint32(Len(v.s)) \o [i \in 1..Len(v.s) |-> CharCode(v.s[i])])
             ELSE PackErr
    ELSE IF type_name = s_bytes
      THEN IF v.k = "bytes" THEN PackOk(varuint32(Len(v.bs)) \o v.bs) ELSE PackErr
    ELSE PackErr

\* the alternative a bare value of each host category is packed as:
\* targets[category] = i in the loop over the alternatives
HasSubstr(s, sub) ==
    \E i \in 1..(Len(s) - Len(sub) + 1) : SubSeq(s, i, i + Len(sub) - 1) = sub
s_int == <<"i", "n", "t">>
s_float == <<"f", "l", "o", "a", "t">>
CategoryOf(var_type) ==
    IF (~is_std_type(var_type) /\ is_raw_type(var_type)) \/ var_type = s_bytes THEN "bytes"
    ELSE IF is_std_type(var_type)
      THEN IF var_type = s_string THEN "string"
           ELSE IF HasSubstr(var_type, s_int) THEN "int"
           ELSE IF HasSubstr(var_type, s_float) THEN "float"
           ELSE IF var_type = s_bool THEN "bool"
           ELSE "TypeError"
    ELSE "dict"
AlternativeCategory(abi, variant) == CategoryOf(resolve_type(abi, variant).resolved_name)
AlternativeCategories(abi, types) ==
    [i \in 1..Len(types) |-> AlternativeCategory(abi, types[i])]
TargetsOf(cats) ==
    [c \in {cats[i] : i \in 1..Len(cats)} |->
        IF c = "dict" THEN 0 ELSE SetMax({i \in 1..Len(cats) : cats[i] = c}) - 1]
variant_targets(abi, types) == TargetsOf(AlternativeCategories(abi, types))

\* the host category of a value
HostCategory(v) ==
    CASE v.k = "bool" -> "bool"
      [] v.k = "int" -> "int"
      [] v.k = "str" -> "string"
      [] v.k = "bytes" -> "bytes"
      [] v.k = "dict" -> "dict"
      [] OTHER -> "none"

IsExtension(r) == r.err = None /\ r.modifiers # <<>> /\ r.modifiers[1] = "EXTENSION"
IsExtensionField(abi, f) == IsExtension(resolve_type(abi, f.type))

\* the value a mapping holds for a field, absent when the key is missing
FieldValue(es, name) == IF name \in DictKeys(es) THEN DictGetVal(es, name) ELSE VNone

\* two encodings one after the other; a failure of either fails the whole pack
JoinPacked(a, b) == IF a.ok /\ b.ok THEN PackOk(a.bytes \o b.bytes) ELSE PackErr

RECURSIVE pack_type(_, _, _)
RECURSIVE pack_mods(_, _, _, _)
RECURSIVE pack_fields(_, _, _, _)

\* a codec that goes on writing extension fields after an absent one
pack_field_always(abi, f, val, skip) ==
    IF val.k = "none" THEN PackOk(<<>>) ELSE pack_type(abi, f.type, val)

pack_field(abi, f, val, skip) ==
    IF skip THEN PackOk(<<>>) ELSE pack_type(abi, f.type, val)

\* the own fields of a struct in declaration order; once an extension field is
\* absent nothing more is written for the extension fields
pack_fields_step(abi, fields, es, stopped, val, ext) ==
    JoinPacked(pack_field(abi, Head(fields), val, ext /\ (stopped \/ val.k = "none")),
               pack_fields(abi, Tail(fields), es, stopped \/ (ext /\ val.k = "none")))

pack_fields(abi, fields, es, stopped) ==
    IF fields = <<>> THEN PackOk(<<>>)
    ELSE pack_fields_step(abi, fields, es, stopped,
                          FieldValue(es, Head(fields).name),
                          IsExtensionField(abi, Head(fields)))

\* the fields of the base struct first, then the own fields
pack_struct_of(abi, struct, v) ==
    JoinPacked(IF struct.base = NoBase THEN PackOk(<<>>)
               ELSE pack_type(abi, struct.base, v),
               pack_fields(abi, struct.fields, v.es, FALSE))

pack_struct(abi, sname, v) ==
    IF v.k # "dict" THEN PackErr ELSE pack_struct_of(abi, struct_map(abi)[sname], v)

\* the alternatives a mapping names with its type entry
NamedAlternatives(types, v) ==
    {i \in 1..Len(types) :
        s_type \in DictKeys(v.es) /\ DictGetVal(v.es, s_type) = VStr(types[i])}

\* the tag as varuint32, then the payload packed as the alternative
pack_tagged(abi, types, tag, v) ==
    JoinPacked(PackOk(varuint32(tag)), pack_type(abi, types[tag + 1], v))

pack_dispatch(abi, types, targets, cat, v) ==
    IF cat \notin DOMAIN targets THEN PackErr
    ELSE IF cat = "dict"
      THEN IF NamedAlternatives(types, v) = {} THEN PackErr
           ELSE pack_tagged(abi, types, SetMin(NamedAlternatives(types, v)) - 1, v)
    ELSE pack_tagged(abi, types, targets[cat], v)

pack_variant(abi, vname, v) ==
    pack_dispatch(abi, variant_map(abi)[vname].types,
                  variant_targets(abi, variant_map(abi)[vname].types), HostCategory(v), v)

pack_base(abi, r, v) ==
    IF r.is_std THEN pack_std(r.resolved_name, v)
    ELSE IF r.resolved_name = s_raw
      THEN IF v.k = "bytes" /\ Len(v.bs) = DecimalValue(r.args[1])
             THEN PackOk(v.bs) ELSE PackErr
    ELSE IF r.is_variant THEN pack_variant(abi, r.resolved_name, v)
    ELSE IF r.is_struct THEN pack_struct(abi, r.resolved_name, v)
    ELSE PackErr

pack_mods(abi, r, mods, v) ==
    IF mods = <<>> THEN pack_base(abi, r, v)
    ELSE IF Head(mods) = "ARRAY"
      THEN IF v.k # "list" THEN PackErr
           ELSE LET parts == [i \in 1..Len(v.xs) |-> pack_mods(abi, r, Tail(mods), v.xs[i])]
                IN IF \A i \in 1..Len(parts) : parts[i].ok
                     THEN PackOk(varuint32(Len(parts))
                                 \o Concat([i \in 1..Len(parts) |-> parts[i].bytes]))
                     ELSE PackErr
    ELSE IF Head(mods) = "OPTIONAL"
      THEN IF v.k = "none" THEN PackOk(<<0>>)
           ELSE JoinPacked(PackOk(<<1>>), pack_mods(abi, r, Tail(mods), v))
    ELSE IF v.k = "none" THEN PackOk(<<>>)
    ELSE pack_mods(abi, r, Tail(mods), v)

pack_resolved(abi, r, v) ==
    IF r.err # None THEN PackErr ELSE pack_mods(abi, r, r.modifiers, v)

pack_type(abi, type_name, v) == pack_resolved(abi, resolve_type(abi, type_name), v)

UnpackOk(val, rest) == [ok |-> TRUE, val |-> val, rest |-> rest]
UnpackErr == [ok |-> FALSE, val |-> VNone, rest |-> <<>>]

\* LEB128: at most five bytes, the high bit continues
RECURSIVE read_varuint32(_, _)
read_varuint32(bs, nread) ==
    IF bs = <<>> \/ nread = 5 THEN [ok |-> FALSE, n |-> 0, rest |-> <<>>]
    ELSE IF Head(bs) < 128 THEN [ok |-> TRUE, n |-> Head(bs), rest |-> Tail(bs)]
    ELSE LET more == read_varuint32(Tail(bs), nread + 1)
         IN [ok |-> more.ok, n |-> (Head(bs) - 128) + 128 * more.n, rest |-> more.rest]

RECURSIVE FromLittleEndian(_)
FromLittleEndian(bs) ==
    IF bs = <<>> THEN 0 ELSE Head(bs) + 256 * FromLittleEndian(Tail(bs))

Drop(bs, n) == SubSeq(bs, n + 1, Len(bs))
Take(bs, n) == SubSeq(bs, 1, n)

unpack_int(type_name, bs) ==
    LET bits == IntBits(type_name)
        nbytes == bits \div 8
        u == FromLittleEndian(Take(bs, nbytes))
    IN IF Len(bs) < nbytes THEN UnpackErr
       ELSE UnpackOk(VInt(IF IntSigned(type_name) /\ u >= Pow2(bits - 1)
                            THEN u - Pow2(bits) ELSE u),
                     Drop(bs, nbytes))

unpack_std(type_name, bs) ==
    IF type_name = s_bool
      THEN IF bs # <<>> /\ Head(bs) \in {0, 1}
             THEN UnpackOk(VBool(Head(bs) = 1), Tail(bs)) ELSE UnpackErr
    ELSE IF type_name \in IntTypes THEN unpack_int(type_name, bs)
    ELSE IF type_name = s_varuint32
      THEN LET n == read_varuint32(bs, 0)
           IN IF n.ok THEN UnpackOk(VInt(n.n), n.rest) ELSE UnpackErr
    ELSE IF type_name \in {s_string, s_bytes}
      THEN LET n == read_varuint32(bs, 0)
               payload == Take(n.rest, n.n)
           IN IF ~n.ok \/ Len(n.rest) < n.n THEN UnpackErr
              ELSE IF type_name = s_bytes THEN UnpackOk(VBytes(payload), Drop(n.rest, n.n))
              ELSE IF \A i \in 1..Len(payload) : IsCharCode(payload[i])
                THEN UnpackOk(VStr([i \in 1..Len(payload) |-> CodeChar(payload[i])]),
                              Drop(n.rest, n.n))
              ELSE UnpackErr
    ELSE UnpackErr

RECURSIVE unpack_type(_, _, _)
RECURSIVE unpack_mods(_, _, _, _)
RECURSIVE unpack_fields(_, _, _, _)
RECURSIVE unpack_items(_, _, _, _, _)

\* an extension field at the end of the buffer decodes as absent
unpack_field(abi, f, bs, ext) ==
    IF ext /\ bs = <<>> THEN UnpackOk(VNone, bs) ELSE unpack_type(abi, f.type, bs)

unpack_fields_step(abi, fields, es, head) ==
    IF ~head.ok THEN UnpackErr
    ELSE unpack_fields(abi, Tail(fields), head.rest,
                       DictSet(es, Head(fields).name, head.val))

\* the own fields in declaration order
unpack_fields(abi, fields, bs, es) ==
    IF fields = <<>> THEN UnpackOk(VDict(es), bs)
    ELSE unpack_fields_step(abi, fields, es,
                            unpack_field(abi, Head(fields), bs,
                                         IsExtensionField(abi, Head(fields))))

unpack_own(abi, struct, base) ==
    IF ~base.ok \/ base.val.k # "dict" THEN UnpackErr
    ELSE unpack_fields(abi, struct.fields, base.rest, base.val.es)

\* the fields of the base struct first, then the own fields
unpack_struct_of(abi, struct, bs) ==
    unpack_own(abi, struct,
               IF struct.base = NoBase THEN UnpackOk(VDict(<<>>), bs)
               ELSE unpack_type(abi, struct.base, bs))

unpack_struct(abi, sname, bs) == unpack_struct_of(abi, struct_map(abi)[sname], bs)

\* a mapping alternative gets the entry type -> alternative name, a scalar
\* alternative is returned bare
unpack_tagged(alternative, payload) ==
    IF ~payload.ok THEN UnpackErr
    ELSE IF payload.val.k = "dict"
      THEN UnpackOk(VDict(DictSet(payload.val.es, s_type, VStr(alternative))),
                    payload.rest)
    ELSE payload

unpack_alternative(abi, types, tag) ==
    IF ~tag.ok \/ tag.n >= Len(types) THEN UnpackErr
    ELSE unpack_tagged(types[tag.n + 1], unpack_type(abi, types[tag.n + 1], tag.rest))

unpack_variant(abi, vname, bs) ==
    unpack_alternative(abi, variant_map(abi)[vname].types, read_varuint32(bs, 0))

unpack_base(abi, r, bs) ==
    IF r.is_std THEN unpack_std(r.resolved_name, bs)
    ELSE IF r.resolved_name = s_raw
      THEN LET n == DecimalValue(r.args[1])
           IN IF Len(bs) < n THEN UnpackErr ELSE UnpackOk(VBytes(Take(bs, n)), Drop(bs, n))
    ELSE IF r.is_variant THEN unpack_variant(abi, r.resolved_name, bs)
    ELSE IF r.is_struct THEN unpack_struct(abi, r.resolved_name, bs)
    ELSE UnpackErr

unpack_items(abi, r, mods, count, acc) ==
    IF count = 0 THEN acc
    ELSE IF ~acc.ok THEN UnpackErr
    ELSE LET item == unpack_mods(abi, r, mods, acc.rest)
         IN IF ~item.ok THEN UnpackErr
            ELSE unpack_items(abi, r, mods, count - 1,
                              UnpackOk(VList(Append(acc.val.xs, item.val)), item.rest))

unpack_mods(abi, r, mods, bs) ==
    IF mods = <<>> THEN unpack_base(abi, r, bs)
    ELSE IF Head(mods) = "ARRAY"
      THEN LET n == read_varuint32(bs, 0)
           IN IF ~n.ok \/ n.n > Len(n.rest) THEN UnpackErr
              ELSE unpack_items(abi, r, Tail(mods), n.n, UnpackOk(VList(<<>>), n.rest))
    ELSE IF Head(mods) = "OPTIONAL"
      THEN IF bs = <<>> \/ Head(bs) \notin {0, 1} THEN UnpackErr
           ELSE IF Head(bs) = 0 THEN UnpackOk(VNone, Tail(bs))
           ELSE unpack_mods(abi, r, Tail(mods), Tail(bs))
    ELSE IF bs = <<>> THEN UnpackOk(VNone, bs)
    ELSE unpack_mods(abi, r, Tail(mods), bs)

unpack_resolved(abi, r, bs) ==
    IF r.err # None THEN UnpackErr ELSE unpack_mods(abi, r, r.modifiers, bs)

unpack_type(abi, type_name, bs) == unpack_resolved(abi, resolve_type(abi, type_name), bs)

\* a successful top-level unpack consumes the whole input
WholeInput(u) == IF u.ok /\ u.rest = <<>> THEN u ELSE UnpackErr

\* pack_<T>(v) and unpack_<T>(b) of the module
pack(abi, type_name, v) == pack_type(abi, type_name, v)
unpack(abi, type_name, bs) == WholeInput(unpack_type(abi, type_name, bs))

\* the comparison of the test: mappings without their key order
RECURSIVE Normal(_)
Normal(v) ==
    IF v.k = "dict"
      THEN [k |-> "dict",
            m |-> [key \in DictKeys(v.es) |-> Normal(DictGetVal(v.es, key))]]
    ELSE IF v.k = "list"
      THEN VList([i \in 1..Len(v.xs) |-> Normal(v.xs[i])])
    ELSE v
deep_eq(a, b) == Normal(a) = Normal(b)

\* ------------------------------------------------------------------------
\* test_roundtrip
\* ------------------------------------------------------------------------

s_b == <<"b">>
s_d == <<"d">>
s_o == <<"o">>
s_v == <<"v">>
s_w == <<"w">>
s_x == <<"x">>
s_y == <<"y">>
s_e == <<"e">>
s_f == <<"f">>
s_m == <<"m">>
s_l == <<"l">>
s_t == <<"t">>

\* the ABI of the test set: a struct with a base and two extension fields, a
\* struct with an optional, an array and a string, a variant of two integers
\* and a variant of a string and a struct
AbiRoundTrip ==
    ABIDef(<<>>,
           <<StructDef(s_b, NoBase, <<FieldDef(s_x, s_uint8), FieldDef(s_y, s_bool)>>),
             StructDef(s_d, s_b, <<FieldDef(s_e, s_uint8 \o <<"$">>),
                                   FieldDef(s_f, s_uint8 \o <<"$">>)>>),
             StructDef(s_o, NoBase, <<FieldDef(s_m, s_uint8 \o <<"?">>),
                                      FieldDef(s_l, s_bool \o <<"[", "]">>),
                                      FieldDef(s_t, s_string)>>)>>,
           <<VariantDef(s_v, <<s_uint16, s_uint8>>),
             VariantDef(s_w, <<s_string, s_b>>)>>)

TestAbis == {AbiRoundTrip}

\* iter_type_meta: every named struct and variant of the ABI
TypeNames(abi) == {abi.structs[i].name : i \in 1..Len(abi.structs)}
                  \cup {abi.variants[i].name : i \in 1..Len(abi.variants)}

NoValue == VNone

InitRoundTrip ==
    /\ rootExists = FALSE
    /\ disk = <<>>
    /\ locks = {}
    /\ ctx = [p \in Procs |-> NoCtx]
    /\ versions = [p \in Procs |-> [n \in Names |-> 0]]
    /\ cache = [p \in Procs |-> <<>>]
    /\ pc = [p \in Procs |-> "none"]
    /\ call = [p \in Procs |-> NoCall]
    /\ warmTodo = [p \in Procs |-> {}]
    /\ ncalls = 0
    /\ nsess = 0
    /\ result = [p \in Procs |-> NoResult]
    /\ succeeded = [p \in Procs |-> {}]
    /\ disk0 = <<>>
    /\ roWrote = {}
    /\ killed = {}
    /\ \E abi \in TestAbis : \E type_name \in TypeNames(abi) :
          test = [stage |-> "start", abi |-> abi, type_name |-> type_name,
                  input_value |-> NoValue, packed |-> <<>>, unpacked |-> NoValue]

CacheVars == <<rootExists, disk, locks, ctx, versions, cache, pc, call, warmTodo,
               ncalls, nsess, result, succeeded, disk0, roWrote, killed>>

\* input_value = abi.random_of(type_name, rng=rng)
TestGenerate ==
    /\ test.stage = "start"
    /\ \E v \in random_of(test.abi, test.type_name, chance_of_none) :
          test' = [test EXCEPT !.stage = "generated", !.input_value = v]
    /\ UNCHANGED CacheVars

\* packed = pack_fn(input_value)
TestPack ==
    /\ test.stage = "generated"
    /\ LET packed == pack(test.abi, test.type_name, test.input_value)
       IN test' = IF packed.ok
                    THEN [test EXCEPT !.stage = "packed", !.packed = packed.bytes]
                    ELSE [test EXCEPT !.stage = "pack_raised"]
    /\ UNCHANGED CacheVars

\* unpacked = unpack_fn(packed)
TestUnpack ==
    /\ test.stage = "packed"
    /\ LET unpacked == unpack(test.abi, test.type_name, test.packed)
       IN test' = IF unpacked.ok
                    THEN [test EXCEPT !.stage = "unpacked", !.unpacked = unpacked.val]
                    ELSE [test EXCEPT !.stage = "unpack_raised"]
    /\ UNCHANGED CacheVars

\* abi.assert_deep_eq(type_name, input_value, unpacked)
TestCompare ==
    /\ test.stage = "unpacked"
    /\ test' = [test EXCEPT !.stage = IF deep_eq(test.input_value, test.unpacked)
                                        THEN "passed" ELSE "differs"]
    /\ UNCHANGED CacheVars

NextRoundTrip == TestGenerate \/ TestPack \/ TestUnpack \/ TestCompare

SpecRoundTrip == InitRoundTrip /\ [][NextRoundTrip]_vars

\* C5: every value the generator produces for a named struct or variant
\* packs, unpacks, and compares equal to what was unpacked
C5_RoundTrip ==
    test.stage \notin {"pack_raised", "unpack_raised", "differs"}

\* ------------------------------------------------------------------------
\* Version counters
\* ------------------------------------------------------------------------

\* p keeps its JITContext over the step
SameContext(p) == HasCtx(p) /\ ctx'[p] = ctx[p]

\* C11: while a context lives, the version counter of a name never decreases,
\* a call increments it only when it was made with force_reload=true, and the
\* key of a call is built from <name>_<current version>
C11_VersionOnlyOnForce ==
    [][\A p \in Procs : SameContext(p) =>
          /\ \A n \in Names :
                /\ versions'[p][n] >= versions[p][n]
                /\ versions'[p][n] > versions[p][n] => InCall(p) /\ call[p].force
          /\ (pc[p] = "idle" /\ pc'[p] = "gm_entry")
                => call'[p].key.mod_name
                     = full_mod_name(call'[p].name, versions[p][call'[p].name])]_vars

\* ------------------------------------------------------------------------
\* A process killed inside module_for_abi
\* ------------------------------------------------------------------------

\* p has created the artifact directory of its call and not finished the build
Generating(p) ==
    InCall(p) /\ (pc[p] \in BuildStages \ {"mfa_mkdir"} \/ call[p].site > 1)

\* the process dies inside module_for_abi: its context and in-memory map are
\* gone, the kernel drops its flock, and the files stay as they are (a file it
\* was writing stays truncated)
Kill(p) ==
    /\ InCall(p)
    /\ nsess < MaxSessions
    /\ pc' = [pc EXCEPT ![p] = "none"]
    /\ ctx' = [ctx EXCEPT ![p] = NoCtx]
    /\ cache' = [cache EXCEPT ![p] = <<>>]
    /\ versions' = [versions EXCEPT ![p] = [n \in Names |-> 0]]
    /\ succeeded' = [succeeded EXCEPT ![p] = {}]
    /\ result' = [result EXCEPT ![p] = NoResult]
    /\ call' = [call EXCEPT ![p] = NoCall]
    /\ locks' = LocksAfterRelease(p)
    /\ killed' = IF Generating(p)
                   THEN killed \cup {[dir |-> DirOf(p),
                                      older |-> {q \in Procs \ {p} : HasCtx(q)}]}
                   ELSE killed
    /\ UNCHANGED <<rootExists, disk, warmTodo, ncalls, nsess, disk0, roWrote, test>>

NextKill == Next \/ \E p \in Procs : Kill(p)

SpecKill == Init /\ [][NextKill]_vars

\* the warm-start scan of q visits a directory in which a process died while
\* generating, and q's Cache was constructed after that death
ScansKilled(q) ==
    /\ pc[q] = "warm_body"
    /\ \E k \in killed : k.dir = call[q].dir /\ q \notin k.older

\* C12: the warm-start scan of a Cache constructed after a process was killed
\* during generation does not register the directory that process was
\* generating as a cached entry
C12_KilledDirNotRegistered ==
    [][\A q \in Procs : ScansKilled(q) => cache'[q] = cache[q]]_vars

\* ------------------------------------------------------------------------
\* Cache._warm_from_disk over directories with damaged params.json
\* ------------------------------------------------------------------------

DebugParams == [DefaultParams EXCEPT !.debug = TRUE]

\* a second artifact directory of foo_0, for the debug build of AbiGood
Foo0DebugDir == [mod |-> Foo0, hash |-> hash_abi_for_cache(AbiGood, DebugParams)]

\* params.json as something may have left it: as written by a complete build,
\* missing, not valid JSON (truncated), one recognised key missing, one
\* unknown key more
ParamsFileStates ==
    {ParamsFile(as_dict(DebugParams)),
     AbsentFile,
     PartialFile,
     ParamsFile([k \in {"debug", "with_pack"} |-> FALSE]),
     ParamsFile([k \in ModuleParamsFields \cup {"inlined"} |-> FALSE])}

\* the cache root holds the complete foo_0 artifact of AbiGood and the debug
\* build's directory with its params.json in one of those states
InitWarm ==
    /\ rootExists = TRUE
    /\ \E pf \in ParamsFileStates :
          disk = (Foo0Dir :> CompleteDir(Foo0, AbiGood, DefaultParams))
                 @@ (Foo0DebugDir :>
                       [CompleteDir(Foo0, AbiGood, DebugParams) EXCEPT !["params"] = pf])
    /\ locks = {}
    /\ ctx = [p \in Procs |-> NoCtx]
    /\ versions = [p \in Procs |-> [n \in Names |-> 0]]
    /\ cache = [p \in Procs |-> <<>>]
    /\ pc = [p \in Procs |-> "none"]
    /\ call = [p \in Procs |-> NoCall]
    /\ warmTodo = [p \in Procs |-> {}]
    /\ ncalls = 0
    /\ nsess = 0
    /\ result = [p \in Procs |-> NoResult]
    /\ succeeded = [p \in Procs |-> {}]
    /\ disk0 = disk
    /\ roWrote = {}
    /\ test = NoTest
    /\ killed = {}

\* processes only construct contexts (each construction runs the scan) and exit
NextWarm == \E p \in Procs : Construct(p) \/ WarmLock(p) \/ WarmBody(p) \/ Exit(p)

SpecWarm == InitWarm /\ [][NextWarm]_vars

\* params.json of the directory is missing or malformed: not valid JSON, a
\* recognised key missing, or an unknown key present
MalformedParams(fs) ==
    \/ ~is_file(fs["params"])
    \/ fs["params"].kind # "params"
    \/ DOMAIN fs["params"].value # ModuleParamsFields

\* the key under which the scan registers a well-formed directory
KeyOfDir(d) == CacheKey(d.mod, d.hash, from_dict(disk[d]["params"].value))

\* C13: the warm-start scan skips a directory whose params.json is missing or
\* malformed: the construction goes on, nothing is registered for it, its
\* files are left as they are, and when the scan ends every well-formed
\* directory is registered
C13_MalformedParamsSkipped ==
    [][\A q \in Procs :
          /\ \A d \in DOMAIN disk : MalformedParams(disk[d]) =>
                /\ \A f \in FileKinds \ {"lock"} : disk'[d][f] = disk[d][f]
                /\ (pc[q] = "warm_body" /\ call[q].dir = d) =>
                      cache'[q] = cache[q] /\ ctx'[q] = ctx[q]
          /\ (pc[q] = "warm_body" /\ pc'[q] = "idle") =>
                \A d \in DOMAIN disk : Complete(disk[d]) /\ ~MalformedParams(disk[d])
                   => KeyOfDir(d) \in DOMAIN cache'[q]]_vars

\* ------------------------------------------------------------------------
\* Fingerprints: hash_abi_for_cache over pairs of inputs
\* ------------------------------------------------------------------------

s_au == <<"a", "u">>
s_tu == <<"t", "u">>

\* struct s with one field, every combination of two names and two types
HashStructs ==
    {<<StructDef(s_s, NoBase, <<FieldDef(n, t)>>)>> :
        n \in {s_a, s_au}, t \in {s_uint8, s_int8}}

\* no alias, or one alias with one of two names and one of two targets
HashAliases ==
    {<<>>} \cup {<<AliasDef(n, t)>> : n \in {s_t, s_tu}, t \in {s_uint8, s_int8}}

HashAbis == {ABIDef(ts, ss, <<>>) : ts \in HashAliases, ss \in HashStructs}

\* params arguments: the defaults, one recognised option changed, and the
\* backend option of the benchmark
HashParamDicts ==
    {EmptyDict,
     [k \in {"debug"} |-> TRUE],
     [k \in {"with_pack"} |-> FALSE],
     [k \in {"inlined"} |-> TRUE],
     [k \in {"inlined"} |-> FALSE]}

InitHash ==
    /\ rootExists = FALSE
    /\ disk = <<>>
    /\ locks = {}
    /\ ctx = [p \in Procs |-> NoCtx]
    /\ versions = [p \in Procs |-> [n \in Names |-> 0]]
    /\ cache = [p \in Procs |-> <<>>]
    /\ pc = [p \in Procs |-> "none"]
    /\ call = [p \in Procs |-> NoCall]
    /\ warmTodo = [p \in Procs |-> {}]
    /\ ncalls = 0
    /\ nsess = 0
    /\ result = [p \in Procs |-> NoResult]
    /\ succeeded = [p \in Procs |-> {}]
    /\ disk0 = disk
    /\ roWrote = {}
    /\ test = NoTest
    /\ killed = {}

\* params = ModuleParams.from_dict(params); src_hash = hash_abi_for_cache(abi, params)
Fingerprint(p) ==
    /\ call[p] = NoCall
    /\ \E abi \in HashAbis, params \in HashParamDicts :
          call' = [call EXCEPT ![p] =
                     [kind |-> "hash", abi |-> abi, params |-> params,
                      src_hash |-> hash_abi_for_cache(abi, from_dict(params))]]
    /\ UNCHANGED <<rootExists, disk, locks, ctx, versions, cache, pc, warmTodo,
                   ncalls, nsess, result, succeeded, disk0, roWrote, test, killed>>

NextHash == \E p \in Procs : Fingerprint(p)

SpecHash == InitHash /\ [][NextHash]_vars

Hashed(p) == call[p].kind = "hash"

\* C14: two ABIs that differ in the name or type of a struct field, or in the
\* name or target of an alias, get different fingerprints under the same
\* build parameters
C14_DistinctAbisDistinctHash ==
    \A p, q \in Procs :
        (Hashed(p) /\ Hashed(q) /\ call[p].abi # call[q].abi
           /\ call[p].params = call[q].params)
          => call[p].src_hash # call[q].src_hash

\* the options compile_module reads from the build parameters
ConsumedOptions == {"debug", "inlined", "with_unpack", "with_pack"}

\* two params arguments differ in option o: in its effective value for an
\* option with a default, in its given value for one without
DifferIn(d1, d2, o) ==
    IF o \in ModuleParamsFields
      THEN from_dict(d1)[o] # from_dict(d2)[o]
      ELSE o \in DOMAIN d1 /\ o \in DOMAIN d2 /\ d1[o] # d2[o]

\* C15: two build-parameter objects that differ in an option the build
\* consumes (debug, with_pack, with_unpack, inlined) give different
\* fingerprints for the same ABI
C15_DistinctParamsDistinctHash ==
    \A p, q \in Procs :
        (Hashed(p) /\ Hashed(q) /\ call[p].abi = call[q].abi
           /\ \E o \in ConsumedOptions : DifferIn(call[p].params, call[q].params, o))
          => call[p].src_hash # call[q].src_hash

\* ------------------------------------------------------------------------
\* ABIView.resolve_type, one iteration of the alias loop per step
\* ------------------------------------------------------------------------

s_A == <<"A">>
s_B == <<"B">>

\* struct s and variant v of every ABI below
ResolveStructs == <<StructDef(s_s, NoBase, <<FieldDef(s_a, s_uint8)>>)>>
ResolveVariants == <<VariantDef(s_v, <<s_uint8, s_uint16>>)>>

\* alias tables: one alias with a modifier, two-step and one-step cycles, a
\* cycle whose targets carry modifiers, a chain with modifiers ending at a
\* struct, an alias called raw, an alias of an unknown type
ResolveAliases ==
    {<<AliasDef(s_A, s_uint8 \o <<"[", "]">>)>>,
     <<AliasDef(s_A, s_B), AliasDef(s_B, s_A)>>,
     <<AliasDef(s_A, s_A)>>,
     <<AliasDef(s_A, s_B \o <<"?">>), AliasDef(s_B, s_A \o <<"[", "]">>)>>,
     <<AliasDef(s_A, s_B \o <<"[", "]">>), AliasDef(s_B, s_s \o <<"?">>)>>,
     <<AliasDef(s_raw, s_uint8)>>,
     <<AliasDef(s_A, s_zz)>>}

ResolveAbis == {ABIDef(ts, ResolveStructs, ResolveVariants) : ts \in ResolveAliases}

\* type expressions handed to resolve_type
ResolveExprs ==
    {s_A, s_A \o <<"?">>, s_A \o <<"[", "]", "?">>, s_B \o <<"[", "]">>,
     s_s, s_v \o <<"$">>, s_zz, s_uint8, s_raw, s_checksum256}

InitResolve == InitHash

\* the loop that never notices a name it has seen
NeverRevisits(base, visited) == FALSE

\* `if base in visited`
Revisits(base, visited) == base \in visited

\* alias modifiers put in front of the expression's
PrependMods(mods, t_mods) == t_mods \o mods

\* `mods.extend(t_mods)`
ExtendMods(mods, t_mods) == mods \o t_mods

Resolved(abi, name, r, iters) ==
    [kind |-> "resolved", abi |-> abi, name |-> name, r |-> r, iters |-> iters]

\* lines 399-406: peel the expression, set up the loop
ResolveStart(p) ==
    /\ call[p] = NoCall
    /\ \E abi \in ResolveAbis, name \in ResolveExprs :
          LET s == split_type_modifiers(name)
          IN call' = [call EXCEPT ![p] =
                IF s.err # None
                  THEN Resolved(abi, name, ResolveError(s.err, name), 0)
                  ELSE [kind |-> "resolving", abi |-> abi, name |-> name,
                        base |-> s.base, mods |-> s.mods, visited |-> {},
                        is_alias |-> FALSE, iters |-> 0]]
    /\ UNCHANGED <<rootExists, disk, locks, ctx, versions, cache, pc, warmTodo,
                   ncalls, nsess, result, succeeded, disk0, roWrote, test, killed>>

\* `target = self.alias_map.get(base)` is truthy
HasTarget(c) ==
    c.base \in DOMAIN alias_map(c.abi) /\ alias_map(c.abi)[c.base] # <<>>

\* one iteration of the while loop that does not break
AliasLoop(p) ==
    /\ call[p].kind = "resolving"
    /\ HasTarget(call[p])
    /\ LET c == call[p]
           t == split_type_modifiers(alias_map(c.abi)[c.base])
       IN call' = [call EXCEPT ![p] =
             IF Revisits(c.base, c.visited)
               THEN Resolved(c.abi, c.name, ResolveError("CircularAlias", c.name),
                             c.iters + 1)
             ELSE IF t.err # None
               THEN Resolved(c.abi, c.name, ResolveError(t.err, c.name), c.iters + 1)
             ELSE [c EXCEPT !.visited = @ \cup {c.base},
                            !.is_alias = TRUE,
                            !.mods = ExtendMods(@, t.mods),
                            !.base = t.base,
                            !.iters = @ + 1]]
    /\ UNCHANGED <<rootExists, disk, locks, ctx, versions, cache, pc, warmTodo,
                   ncalls, nsess, result, succeeded, disk0, roWrote, test, killed>>

\* lines 419-442: validity check, raw(N), the result
resolve_checked(abi, name, loop_base, mods, is_alias) ==
    IF ~is_valid_type(abi, loop_base) THEN ResolveError("NotValidType", name)
    ELSE
    LET base == resolve_alias(abi, loop_base)
        raw == is_raw_type(base)
        x == IF raw THEN extract_type_params(base)
                    ELSE [err |-> None, args |-> <<>>]
        rname == IF raw THEN s_raw ELSE base
    IN IF x.err # None THEN ResolveError(x.err, name)
       ELSE [err |-> None,
             original_name |-> name,
             resolved_name |-> rname,
             args |-> x.args,
             is_std |-> is_std_type(rname),
             is_alias |-> is_alias,
             is_struct |-> rname \in DOMAIN struct_map(abi),
             is_variant |-> rname \in DOMAIN variant_map(abi),
             modifiers |-> mods]

\* the loop breaks and resolve_type returns or raises
ResolveFinish(p) ==
    /\ call[p].kind = "resolving"
    /\ ~HasTarget(call[p])
    /\ LET c == call[p]
       IN call' = [call EXCEPT ![p] =
             Resolved(c.abi, c.name,
                      resolve_checked(c.abi, c.name, c.base, c.mods, c.is_alias),
                      c.iters)]
    /\ UNCHANGED <<rootExists, disk, locks, ctx, versions, cache, pc, warmTodo,
                   ncalls, nsess, result, succeeded, disk0, roWrote, test, killed>>

\* resolve_type reads only its arguments: one caller shows all it can do
NextResolve == \E p \in {1} : ResolveStart(p) \/ AliasLoop(p) \/ ResolveFinish(p)

SpecResolve == InitResolve /\ [][NextResolve]_vars

\* the step-wise loop and the resolver used by the generators agree
ResolveAgrees ==
    \A p \in Procs : call[p].kind = "resolved" =>
        call[p].r = resolve_type(call[p].abi, call[p].name)

AliasCount(abi) == Cardinality(DOMAIN alias_map(abi))

\* following alias targets from base reaches a name that is not an alias
\* within fuel substitutions
RECURSIVE ChainEnds(_, _, _)
ChainEnds(amap, base, fuel) ==
    IF base \notin DOMAIN amap THEN TRUE
    ELSE IF fuel = 0 THEN FALSE
    ELSE ChainEnds(amap, split_type_modifiers(amap[base]).base, fuel - 1)

\* the alias chain starting at the expression comes back to a name
Cyclic(abi, name) ==
    /\ split_type_modifiers(name).err = None
    /\ ~ChainEnds(alias_map(abi), split_type_modifiers(name).base, AliasCount(abi))

\* C16: the alias loop of resolve_type terminates: every iteration that does
\* not raise adds a new alias name to visited, so it runs at most once more
\* than there are aliases; and a chain that revisits a name ends in the
\* circular-alias error
C16_AliasLoopTerminates ==
    \A p \in Procs :
        /\ call[p].kind = "resolving" =>
              /\ call[p].visited \subseteq DOMAIN alias_map(call[p].abi)
              /\ call[p].iters = Cardinality(call[p].visited)
        /\ call[p].kind = "resolved" =>
              /\ call[p].iters <= AliasCount(call[p].abi) + 1
              /\ Cyclic(call[p].abi, call[p].name) => call[p].r.err = "CircularAlias"

\* a two-step cycle whose targets carry modifiers was resolved: the third
\* iteration raised
C16_Witness ==
    \E p \in Procs :
        /\ call[p].kind = "resolved"
        /\ call[p].abi.types = <<AliasDef(s_A, s_B \o <<"?">>), AliasDef(s_B, s_A \o <<"[", "]">>)>>
        /\ call[p].name = s_A \o <<"?">>
        /\ call[p].iters = 3
        /\ call[p].r.err = "CircularAlias"

\* the name at which the alias chain from base ends
RECURSIVE ChainBase(_, _, _)
ChainBase(amap, base, fuel) ==
    IF base \notin DOMAIN amap \/ fuel = 0 THEN base
    ELSE ChainBase(amap, split_type_modifiers(amap[base]).base, fuel - 1)

\* a built-in type, a struct, a variant, or raw(N)
KnownBase(abi, b) ==
    \/ b \in STD_TYPES
    \/ b \in DOMAIN struct_map(abi)
    \/ b \in DOMAIN variant_map(abi)
    \/ RawBody(b)

\* C17: when resolve_type returns, resolved_name is a built-in type, a struct,
\* a variant, or raw with the length as its only argument, and is not an alias
\* name; for an expression whose base is none of these it raises the 'not a
\* valid type' error
C17_ResolvedNameKnown ==
    \A p \in Procs : call[p].kind = "resolved" =>
        LET abi == call[p].abi
            r == call[p].r
            s == split_type_modifiers(call[p].name)
        IN /\ r.err = None =>
                 /\ \/ r.resolved_name \in STD_TYPES
                    \/ r.resolved_name \in DOMAIN struct_map(abi)
                    \/ r.resolved_name \in DOMAIN variant_map(abi)
                    \/ (r.resolved_name = s_raw /\ Len(r.args) = 1)
                 /\ r.resolved_name \notin DOMAIN alias_map(abi)
           /\ (/\ s.err = None
               /\ ~Cyclic(abi, call[p].name)
               /\ ~KnownBase(abi, ChainBase(alias_map(abi), s.base, AliasCount(abi))))
                 => r.err = "NotValidType"

\* the expression with every alias replaced by its target, modifiers kept
RECURSIVE Expand(_, _, _)
Expand(amap, expr, fuel) ==
    LET s == split_type_modifiers(expr)
    IN IF s.err # None \/ s.base \notin DOMAIN amap \/ fuel = 0 THEN expr
       ELSE Expand(amap, amap[s.base] \o SubSeq(expr, Len(s.base) + 1, Len(expr)),
                   fuel - 1)

\* C18: the modifier chain resolve_type returns is ordered outermost first, the
\* expression's modifiers right-to-left and then those of each alias target
\* along the chain; it equals the chain peeled from the expression with its
\* aliases textually expanded, on the same base
C18_ModifiersOuterFirst ==
    \A p \in Procs : (call[p].kind = "resolved" /\ call[p].r.err = None) =>
        LET e == split_type_modifiers(
                    Expand(alias_map(call[p].abi), call[p].name, AliasCount(call[p].abi)))
        IN /\ e.err = None
           /\ call[p].r.modifiers = e.mods
           /\ call[p].r.resolved_name = IF is_raw_type(e.base) THEN s_raw ELSE e.base

\* with alias A -> uint8[], 'A?' resolved to [OPTIONAL, ARRAY] on uint8
C18_Witness ==
    \E p \in Procs :
        /\ call[p].kind = "resolved"
        /\ call[p].abi.types = <<AliasDef(s_A, s_uint8 \o <<"[", "]">>)>>
        /\ call[p].name = s_A \o <<"?">>
        /\ call[p].r.err = None
        /\ call[p].r.resolved_name = s_uint8
        /\ call[p].r.modifiers = <<"OPTIONAL", "ARRAY">>

\* ------------------------------------------------------------------------
\* Extension fields of struct d (base b; extension fields e and f)
\* ------------------------------------------------------------------------

\* the extension fields as the trailing rule leaves them: e as given, f
\* absent once e is absent
KeptE(v) == FieldValue(v.es, s_e)
KeptF(v) == IF KeptE(v).k = "none" THEN VNone ELSE FieldValue(v.es, s_f)

\* the bytes of one kept extension field: nothing when it is absent
KeptBytes(x) == IF x.k = "none" THEN <<>> ELSE pack_std(s_uint8, x).bytes

TestIsPacked == test.stage \in {"packed", "unpacked", "passed", "differs"}
TestIsUnpacked == test.stage \in {"unpacked", "passed", "differs"}

\* C19: extension trailing rule: packing a struct writes nothing for an
\* absent extension field nor for any extension field after it (a later present
\* value is dropped); unpacking a buffer that ends at an extension field gives
\* that field and all later extension fields as absent, and raises nothing
C19_ExtensionTrailingRule ==
    test.type_name = s_d =>
        /\ test.stage \notin {"pack_raised", "unpack_raised"}
        /\ TestIsPacked =>
              test.packed = pack(test.abi, s_b, test.input_value).bytes
                            \o KeptBytes(KeptE(test.input_value))
                            \o KeptBytes(KeptF(test.input_value))
        /\ TestIsUnpacked =>
              /\ FieldValue(test.unpacked.es, s_e) = KeptE(test.input_value)
              /\ FieldValue(test.unpacked.es, s_f) = KeptF(test.input_value)

\* a value of d with e absent and f present was packed into the two bytes of
\* its base fields, and unpacking them gave e and f absent
C19_Witness ==
    /\ test.type_name = s_d
    /\ TestIsUnpacked
    /\ FieldValue(test.input_value.es, s_e) = VNone
    /\ FieldValue(test.input_value.es, s_f) # VNone
    /\ Len(test.packed) = 2
    /\ FieldValue(test.unpacked.es, s_e) = VNone
    /\ FieldValue(test.unpacked.es, s_f) = VNone

\* ------------------------------------------------------------------------
\* Variants with several alternatives in one host category
\* ------------------------------------------------------------------------

\* the alternatives of the variant that take values of the category of v
SameCategory(abi, vname, v) ==
    {i \in 1..Len(variant_map(abi)[vname].types) :
        AlternativeCategory(abi, variant_map(abi)[vname].types[i]) = HostCategory(v)}

\* v is a bare value (not a mapping naming its type) that two or more
\* alternatives of the variant could take
Ambiguous(abi, vname, v) ==
    /\ vname \in DOMAIN variant_map(abi)
    /\ v.k \notin {"dict", "none"}
    /\ Cardinality(SameCategory(abi, vname, v)) >= 2

\* C20: when a variant has two or more alternatives in one host category,
\* packing a bare value of that category fails; pack never selects one of
\* those alternatives
C20_AmbiguousBareValueFails ==
    (test.stage # "start" /\ test.stage # "generated"
       /\ Ambiguous(test.abi, test.type_name, test.input_value))
      => test.stage = "pack_raised"

\* ------------------------------------------------------------------------
\* try_c_source_from_abi over a set of ABIs
\* ------------------------------------------------------------------------

s_T == <<"T">>
s_U == <<"U">>

OneStruct(fields) == <<StructDef(s_s, NoBase, fields)>>

\* ABIs handed to the generator: plain, with aliases (plain target, target with
\* modifiers, chained, declared twice, of a built-in alias, named like a
\* built-in alias), with extension fields in and out of trailing position,
\* with a base struct, and with a field of an unknown type
GenAbis ==
    {AbiGood,
     AbiUnresolvable,
     ABIDef(<<AliasDef(s_T, s_uint8)>>, OneStruct(<<FieldDef(s_a, s_T)>>), <<>>),
     ABIDef(<<AliasDef(s_T, s_uint8 \o <<"[", "]">>)>>,
            OneStruct(<<FieldDef(s_a, s_T)>>), <<>>),
     ABIDef(<<AliasDef(s_T, s_name \o <<"?">>)>>,
            OneStruct(<<FieldDef(s_a, s_T)>>), <<>>),
     ABIDef(<<AliasDef(s_T, s_U), AliasDef(s_U, s_uint8)>>,
            OneStruct(<<FieldDef(s_a, s_T)>>), <<>>),
     ABIDef(<<AliasDef(s_T, s_uint8), AliasDef(s_T, s_uint16)>>,
            OneStruct(<<FieldDef(s_a, s_T)>>), <<>>),
     ABIDef(<<AliasDef(s_T, s_checksum256)>>,
            OneStruct(<<FieldDef(s_a, s_T)>>), <<>>),
     ABIDef(<<AliasDef(s_name, s_uint8)>>,
            OneStruct(<<FieldDef(s_a, s_name)>>), <<>>),
     ABIDef(<<>>, OneStruct(<<FieldDef(s_a, s_uint8 \o <<"$">>),
                              FieldDef(s_b, s_uint8)>>), <<>>),
     ABIDef(<<>>, OneStruct(<<FieldDef(s_a, s_uint8),
                              FieldDef(s_b, s_uint8 \o <<"$">>)>>), <<>>),
     ABIDef(<<>>, <<StructDef(s_s, NoBase, <<FieldDef(s_a, s_uint8)>>),
                    StructDef(s_d, s_s, <<FieldDef(s_b, s_bool)>>)>>, <<>>)}

\* the dict alias_defs after the loop over abi.types: the last target of a
\* name wins
alias_defs(abi) ==
    [n \in UserAliasNames(abi) |-> abi.types[LastIndex(abi.types, AliasKey, n)].type]

\* call=abi.resolve_type(from_type_name) of the alias functions
alias_call(abi, new_type_name) == resolve_type(abi, alias_defs(abi)[new_type_name])

\* 'call': abi.resolve_type(f.type_) of a struct field
field_call(abi, f) == resolve_type(abi, f.type)

InitGen == InitHash

\* source = c_source_from_abi(key.mod_name, src_hash, abi), for module foo_0
TryGenerate(p) ==
    /\ call[p] = NoCall
    /\ \E abi \in GenAbis :
          call' = [call EXCEPT ![p] =
                     [kind |-> "gen", abi |-> abi, ok |-> c_source_ok(Foo0, abi)]]
    /\ UNCHANGED <<rootExists, disk, locks, ctx, versions, cache, pc, warmTodo,
                   ncalls, nsess, result, succeeded, disk0, roWrote, test, killed>>

NextGen == \E p \in Procs : TryGenerate(p)

SpecGen == InitGen /\ [][NextGen]_vars

Generated(p) == call[p].kind = "gen"

\* the ABI declares an alias whose target carries modifiers and resolves
AliasWithModifiers(abi) ==
    \E i \in 1..Len(abi.types) :
        /\ split_type_modifiers(abi.types[i].type).err = None
        /\ split_type_modifiers(abi.types[i].type).mods # <<>>
        /\ resolve_type(abi, abi.types[i].type).err = None

\* C21: an ABI with an alias whose target has trailing modifiers (T -> uint8[],
\* T -> name?) is accepted: source generation returns for it
C21_ModifiedAliasAccepted ==
    \A p \in Procs :
        (Generated(p) /\ AliasWithModifiers(call[p].abi)) => call[p].ok

\* a struct of the ABI has a non-extension field after an extension field
BreaksExtensionOrder(abi) ==
    \E k \in 1..Len(abi.structs) :
        \E i, j \in 1..Len(abi.structs[k].fields) :
            /\ i < j
            /\ IsExtensionField(abi, abi.structs[k].fields[i])
            /\ ~IsExtensionField(abi, abi.structs[k].fields[j])

\* C22: an ABI with a struct in which a non-extension field follows an
\* extension field is rejected: source generation raises for it
C22_ExtensionOrderRejected ==
    \A p \in Procs :
        (Generated(p) /\ BreaksExtensionOrder(call[p].abi)) => ~call[p].ok

\* two resolved types encode alike: same base, arguments and modifier chain
SameEncoding(r1, r2) ==
    /\ r1.err = None /\ r2.err = None
    /\ r1.resolved_name = r2.resolved_name
    /\ r1.args = r2.args
    /\ r1.modifiers = r2.modifiers

\* C29: for every alias A the ABI declares, the resolved type the generator
\* uses for pack_A / unpack_A is the one resolve_type(A) gives, which a struct
\* field of type A uses, also when A has the name of a built-in alias
C29_AliasCallMatchesResolver ==
    \A p \in Procs : (Generated(p) /\ call[p].ok) =>
        \A n \in DOMAIN alias_defs(call[p].abi) :
            SameEncoding(alias_call(call[p].abi, n),
                         field_call(call[p].abi, FieldDef(s_a, n)))

\* ------------------------------------------------------------------------
\* check_ident over short strings
\* ------------------------------------------------------------------------

\* a letter of each case, a digit, the underscore, and three characters that
\* are not identifier characters
IdentAlphabet == {"a", "Z", "7", "_", "\n", "-", "("}

MaxIdentLen == 3

\* every string over the alphabet up to the length bound, the empty one too
IdentStrings ==
    UNION {[1..n -> IdentAlphabet] : n \in 0..MaxIdentLen}

InitIdent == InitHash

\* check_ident(name, what), allow_raw left at its default
CheckIdent(p) ==
    /\ call[p] = NoCall
    /\ \E name \in IdentStrings :
          call' = [call EXCEPT ![p] =
                     [kind |-> "ident", name |-> name,
                      accepted |-> check_ident(name, FALSE)]]
    /\ UNCHANGED <<rootExists, disk, locks, ctx, versions, cache, pc, warmTodo,
                   ncalls, nsess, result, succeeded, disk0, roWrote, test, killed>>

\* check_ident reads only its argument: one caller shows all it can do
NextIdent == \E p \in {1} : CheckIdent(p)

SpecIdent == InitIdent /\ [][NextIdent]_vars

\* C23: check_ident without allow_raw accepts a string only if it is
\* non-empty, starts with a letter or underscore, and holds nothing but
\* letters, digits and underscores (no newline and no other character)
C23_IdentInjectionBarrier ==
    \A p \in Procs : (call[p].kind = "ident" /\ call[p].accepted) =>
        /\ Len(call[p].name) >= 1
        /\ call[p].name[1] \in IdStart
        /\ \A i \in 1..Len(call[p].name) : call[p].name[i] \in IdChar

\* ------------------------------------------------------------------------
\* force_reload over an existing directory
\* ------------------------------------------------------------------------

\* p takes a step of a force_reload call whose key names a directory that was
\* on disk before the context existed
ForcedOverExisting(p) ==
    /\ InCall(p)
    /\ call[p].force
    /\ pc'[p] # pc[p]
    /\ DirOf(p) \in DOMAIN disk0

\* C24: a force_reload call for a key whose artifact directory already exists
\* builds in a fresh directory and leaves the files of the existing directory
\* as they are
C24_ForceReloadFreshDir ==
    [][\A p \in Procs : ForcedOverExisting(p) =>
          \A f \in FileKinds \ {"lock"} : disk'[DirOf(p)][f] = disk[DirOf(p)][f]]_vars

\* ------------------------------------------------------------------------
\* Deleting and overwriting under the cache root
\* ------------------------------------------------------------------------

\* p takes the step
Acts(p) == pc'[p] # pc[p]

\* the step changes a file that was written in full before it: the truncation
\* that opens a write, or the end of a write over what another process wrote
Overwrites(d, f) ==
    /\ d \in DOMAIN disk'
    /\ is_file(disk[d][f]) /\ disk[d][f] # PartialFile
    /\ disk'[d][f] # disk[d][f]

\* C25: no step removes a directory or a file under the cache root (nor the
\* root), and, with IPC locking, a step that overwrites an existing C source
\* or compiled artifact is taken by a process holding the exclusive lock of
\* the directory
C25_NoDeleteOverwriteLocked ==
    [][/\ rootExists => rootExists'
       /\ \A d \in DOMAIN disk :
             /\ d \in DOMAIN disk'
             /\ \A f \in FileKinds : is_file(disk[d][f]) => is_file(disk'[d][f])
             /\ \A f \in {"c", "so"} : Overwrites(d, f) =>
                   \E p \in Procs :
                       /\ Acts(p)
                       /\ ctx[p].ipc_locked => HoldsExclusive(p, d)]_vars

\* a context with IPC locking holds the exclusive lock of a directory whose C
\* source, present before, it has truncated and is rewriting
C25_Witness ==
    \E p \in Procs :
        /\ HasCtx(p) /\ ctx[p].ipc_locked
        /\ InCall(p) /\ pc[p] = "sas_wend"
        /\ DirOf(p) \in DOMAIN disk0
        /\ is_file(disk0[DirOf(p)]["c"])
        /\ disk[DirOf(p)]["c"] = PartialFile
        /\ HoldsExclusive(p, DirOf(p))


\* C25, as stated for every context: an existing C source or compiled
\* artifact is overwritten only by a process that holds the exclusive lock of
\* the directory, whether or not its context uses IPC locks.
C25_OverwriteAlwaysLocked ==
    [][\A d \in DOMAIN disk : \A f \in {"c", "so"} :
          Overwrites(d, f) => \E p \in Procs : Acts(p) /\ HoldsExclusive(p, d)]_vars


\* ------------------------------------------------------------------------
\* Lookup of an artifact that is on disk
\* ------------------------------------------------------------------------

\* the complete artifact directory of p's requested key is on disk
OnDisk(p) == DirOf(p) \in DOMAIN disk /\ Complete(disk[DirOf(p)])

\* p's step is the one where Cache.get_module hands its result to
\* module_for_abi at lines 218-227 (the first lookup of a call)
LookupDecides(p) ==
    /\ InCall(p) /\ call[p].site = 1
    /\ pc[p] \in {"gm_entry", "gm_body"}
    /\ pc'[p] \notin {"gm_entry", "gm_lock", "gm_body"}

\* C26: a call without force_reload whose key has a complete artifact on disk
\* when the lookup decides returns that artifact: it neither goes on to build
\* nor raises, in a read-only context as well.
C26_OnDiskIsReturned ==
    [][\A p \in Procs :
          (LookupDecides(p) /\ ~call[p].force /\ OnDisk(p)) =>
              /\ result'[p].kind = "ok"
              /\ result'[p].module = ModuleOf(disk[DirOf(p)]["so"])]_vars


\* The state after process 1 constructed its JITContext on an empty cache
\* root (nothing to scan, nothing registered) and the complete artifact of
\* foo_0 for AbiGood was put under the root afterwards by another process.
InitLate ==
    /\ rootExists = TRUE
    /\ disk = (Foo0Dir :> CompleteDir(Foo0, AbiGood, DefaultParams))
    /\ locks = {}
    /\ \E readonly \in BOOLEAN, ipc_locked \in BOOLEAN :
          ctx = [p \in Procs |->
                   IF p = 1
                     THEN [kind |-> "ctx", readonly |-> readonly,
                           cache_readonly |-> CacheReadonlyArg(readonly),
                           ipc_locked |-> ipc_locked]
                     ELSE NoCtx]
    /\ versions = [p \in Procs |-> [n \in Names |-> 0]]
    /\ cache = [p \in Procs |-> <<>>]
    /\ pc = [p \in Procs |-> IF p = 1 THEN "idle" ELSE "none"]
    /\ call = [p \in Procs |-> NoCall]
    /\ warmTodo = [p \in Procs |-> {}]
    /\ ncalls = 0
    /\ nsess = 1
    /\ result = [p \in Procs |-> NoResult]
    /\ succeeded = [p \in Procs |-> {}]
    /\ disk0 = disk
    /\ roWrote = {}
    /\ test = NoTest
    /\ killed = {}

SpecLate == InitLate /\ [][Next]_vars


\* ------------------------------------------------------------------------
\* Fingerprints of ABIs with derived structs
\* ------------------------------------------------------------------------

\* structs s and t and a struct d that has no base, base s or base t
BasedAbis ==
    {ABIDef(<<>>,
            <<StructDef(s_s, NoBase, <<FieldDef(s_a, s_uint8)>>),
              StructDef(s_t, NoBase, <<FieldDef(s_a, s_uint8)>>),
              StructDef(s_d, base, <<FieldDef(s_b, t)>>)>>,
            <<>>) :
        base \in {NoBase, s_s, s_t}, t \in {s_uint8, s_int8}}

BasedParamDicts == {EmptyDict, [k \in {"debug"} |-> TRUE]}

InitBased == InitHash

\* src_hash = hash_abi_for_cache(abi, params) for an ABI with a derived struct
FingerprintBased(p) ==
    /\ call[p] = NoCall
    /\ \E abi \in BasedAbis, params \in BasedParamDicts :
          call' = [call EXCEPT ![p] =
                     [kind |-> "based", abi |-> abi, params |-> params,
                      src_hash |-> hash_abi_for_cache(abi, from_dict(params))]]
    /\ UNCHANGED <<rootExists, disk, locks, ctx, versions, cache, pc, warmTodo,
                   ncalls, nsess, result, succeeded, disk0, roWrote, test, killed>>

NextBased == \E p \in Procs : FingerprintBased(p)

SpecBased == InitBased /\ [][NextBased]_vars

\* the two ABIs are the same but for the base of exactly one struct
DifferOnlyInBase(a, b) ==
    /\ a.types = b.types /\ a.variants = b.variants
    /\ Len(a.structs) = Len(b.structs)
    /\ \A i \in 1..Len(a.structs) :
          /\ a.structs[i].name = b.structs[i].name
          /\ a.structs[i].fields = b.structs[i].fields
    /\ Cardinality({i \in 1..Len(a.structs) : a.structs[i].base # b.structs[i].base}) = 1

\* C27: two ABIs that are the same but for the base of one struct get
\* different fingerprints under the same build parameters
C27_BaseChangesHash ==
    \A p, q \in Procs :
        (/\ call[p].kind = "based" /\ call[q].kind = "based"
         /\ call[p].params = call[q].params
         /\ DifferOnlyInBase(call[p].abi, call[q].abi))
          => call[p].src_hash # call[q].src_hash


\* ------------------------------------------------------------------------
\* Generated struct values and the extension rule
\* ------------------------------------------------------------------------

\* the type of the field ends in the extension modifier
EndsInDollar(f) == LastChar(f.type) = "$"

\* after the first absent extension field of the struct every later extension
\* field is absent
ExtensionRule(struct, v) ==
    \A i, j \in 1..Len(struct.fields) :
        (/\ i < j
         /\ EndsInDollar(struct.fields[i]) /\ EndsInDollar(struct.fields[j])
         /\ FieldValue(v.es, struct.fields[i].name) = VNone)
          => FieldValue(v.es, struct.fields[j].name) = VNone

\* the fields of the base are as the generator of the base can return them
BaseKept(abi, struct, v) ==
    struct.base # NoBase =>
        \E b \in random_of(abi, struct.base, chance_of_none) :
            /\ b.k = "dict"
            /\ \A i \in 1..Len(b.es) : FieldValue(v.es, b.es[i].key) = b.es[i].val

\* C30: the value generated for a struct type, with or without a base,
\* satisfies the extension rule, and its base fields are as generated
C30_GeneratedObeysExtensionRule ==
    (test.stage # "start" /\ is_struct_type(test.abi, test.type_name)) =>
        LET struct == struct_dict(test.abi, test.type_name) IN
        /\ ExtensionRule(struct, test.input_value)
        /\ BaseKept(test.abi, struct, test.input_value)


\* ------------------------------------------------------------------------
\* Lock discipline and termination of calls
\* ------------------------------------------------------------------------

\* the steps of p at which fcntl.flock blocks until the lock is granted
Acquire(p) ==
    \/ WarmLock(p)
    \/ GetModuleLock(p)
    \/ GetAbiSourceLock(p)
    \/ SetAbiSourceLock(p)
    \/ CompileLock(p)

\* the other steps of a scan or call that is under way
Proceed(p) ==
    \/ WarmBody(p)
    \/ GetModuleEntry(p)
    \/ GetModuleBody(p)
    \/ MfaMkdir(p)
    \/ MfaJsonBegin(p)
    \/ MfaJsonEnd(p)
    \/ GetAbiSourceBody(p)
    \/ Generate(p)
    \/ SetAbiSourceBegin(p)
    \/ SetAbiSourceEnd(p)
    \/ CompileWriteBegin(p)
    \/ CompileWriteEnd(p)

\* a running process goes on running, and a lock that is free again and again
\* is granted to a process that waits for it
Fairness ==
    \A p \in Procs : WF_vars(Proceed(p)) /\ SF_vars(Acquire(p))

\* The state after every process has run JITContext.__init__ up to the
\* warm-start scan, with IPC locks, on a root that holds the artifact of foo_0
InitFair ==
    /\ rootExists = TRUE
    /\ disk = (Foo0Dir :> CompleteDir(Foo0, AbiGood, DefaultParams))
    /\ locks = {}
    /\ \E ro \in [Procs -> BOOLEAN] :
          ctx = [p \in Procs |->
                   [kind |-> "ctx", readonly |-> ro[p],
                    cache_readonly |-> CacheReadonlyArg(ro[p]),
                    ipc_locked |-> TRUE]]
    /\ versions = [p \in Procs |-> [n \in Names |-> 0]]
    /\ cache = [p \in Procs |-> <<>>]
    /\ pc = [p \in Procs |-> IF DOMAIN disk = {} THEN "idle" ELSE "warm"]
    /\ call = [p \in Procs |-> NoCall]
    /\ warmTodo = [p \in Procs |-> DOMAIN disk]
    /\ ncalls = 0
    /\ nsess = NumProcs
    /\ result = [p \in Procs |-> NoResult]
    /\ succeeded = [p \in Procs |-> {}]
    /\ disk0 = disk
    /\ roWrote = {}
    /\ test = NoTest
    /\ killed = {}

NextFair == \E p \in Procs : Acquire(p) \/ Proceed(p) \/ CallStart(p)

SpecFair == InitFair /\ [][NextFair]_vars /\ Fairness

HeldBy(p) == {l \in locks : l.proc = p}

\* C28: a process that is in no operation holds no lock; a process takes a
\* lock only while it holds none; and every module_for_abi call that has
\* started returns or raises
C28_LocksReleasedCallsEnd ==
    /\ [](\A p \in Procs : pc[p] \in {"none", "idle"} => HeldBy(p) = {})
    /\ [][\A p \in Procs :
             (\E l \in locks' \ locks : l.proc = p) => HeldBy(p) = {}]_vars
    /\ \A p \in Procs : InCall(p) ~> ~InCall(p)

\* a call that ran while the other process was in a call too, both under IPC
\* locks, came back after it had taken and released the lock of its directory
C28_Witness ==
    \E p \in Procs :
        /\ HasCtx(p) /\ ctx[p].ipc_locked
        /\ Finished(p) /\ result[p].concurrent
        /\ result[p].kind = "raised" /\ result[p].stage = "compile"
        /\ HeldBy(p) = {}
        /\ \E q \in Procs \ {p} : HasCtx(q) /\ ctx[q].ipc_locked /\ InCall(q)

====
